---- MODULE Spec2Model ----
(***************************************************************************)
(* Model of the OpenCTI MCP server (opencti_mcp_server_v7.py).             *)
(*                                                                         *)
(* The server is a set of stateless tools over one collaborator, the       *)
(* OpenCTI client.  The model keeps the collaborator's backing data set    *)
(* in db and records, for the last tool invocation, the tool, its          *)
(* arguments, the collaborator calls it issued (in order), how it ended    *)
(* and what it returned.  db.fault says which collaborator call of an     *)
(* invocation ends with an exception, if any.                              *)
(*                                                                         *)
(* Python values that come from the collaborator are tagged records:       *)
(* PyNone, PyStr(s), PyInt(i), PyList(seq).  A Python dict is a TLA+ function      *)
(* from its keys to such values; an absent key is a key outside DOMAIN.    *)
(* A relationship endpoint is a dict or is absent, a report field is a     *)
(* value, None or absent: these are the shapes the repository's tests      *)
(* feed to the code.                                                       *)
(*                                                                         *)
(* The process itself has an environment (environ), the module global      *)
(* _cti_client, the constructor calls made so far (constructed) and the    *)
(* string hash seed the interpreter drew at start (hashseed), which fixes  *)
(* the iteration order of every set of strings for the process lifetime.   *)
(* kept is the caller's copy of an earlier response.                        *)
(***************************************************************************)
EXTENDS Integers, Sequences, FiniteSets, TLC

VARIABLES db, tool, args, calls, outcome, result, fetched,
          environ, _cti_client, constructed, hashseed, kept

vars == <<db, tool, args, calls, outcome, result, fetched,
          environ, _cti_client, constructed, hashseed, kept>>

-----------------------------------------------------------------------------
(* Bounds *)

MaxRels == 2        \* longest relationship list the collaborator returns
MaxLimit == 3       \* largest limit argument tried
MaxHits == 2        \* longest free-text search answer
MaxAliases == 2     \* longest alias list
MaxCalls == 5       \* latest position of a failing call in an invocation

-----------------------------------------------------------------------------
(* Python values *)

PyNone == [t |-> "none"]
PyStr(s) == [t |-> "str", v |-> s]
PyInt(i) == [t |-> "int", v |-> i]
PyList(q) == [t |-> "list", v |-> q]

EmptyDict == [k \in {} |-> PyNone]

\* bool(v): None, "", 0 and [] are falsy
Truthy(v) ==
    CASE v.t = "none" -> FALSE
      [] v.t = "str"  -> v.v # ""
      [] v.t = "int"  -> v.v # 0
      [] v.t = "list" -> v.v # <<>>

\* d.get(k, default): the default only when the key is absent
Get(d, k, default) == IF k \in DOMAIN d THEN d[k] ELSE default

\* d.get(k) or default
GetOr(d, k, default) ==
    LET v == Get(d, k, PyNone) IN IF Truthy(v) THEN v ELSE default

\* variant: seq[:n + 1]
Slice_one_more(seq, n) ==
    LET m == n + 1
        stop == IF m >= 0 THEN (IF m < Len(seq) THEN m ELSE Len(seq))
                ELSE (IF Len(seq) + m > 0 THEN Len(seq) + m ELSE 0)
    IN  SubSeq(seq, 1, stop)

\* variant: seq[-n:] for a positive n
Slice_from_end(seq, n) ==
    IF n > 0 /\ n < Len(seq) THEN SubSeq(seq, Len(seq) - n + 1, Len(seq))
    ELSE IF n >= 0 THEN SubSeq(seq, 1, IF n < Len(seq) THEN n ELSE Len(seq))
    ELSE SubSeq(seq, 1, IF Len(seq) + n > 0 THEN Len(seq) + n ELSE 0)

\* seq[:n] with Python's slice semantics (a negative n counts from the end)
Slice(seq, n) ==
    LET stop == IF n >= 0 THEN (IF n < Len(seq) THEN n ELSE Len(seq))
                ELSE (IF Len(seq) + n > 0 THEN Len(seq) + n ELSE 0)
    IN  SubSeq(seq, 1, stop)

\* all sequences over S of length at most n
SeqsUpTo(S, n) == UNION {[1..k -> S] : k \in 0..n}

Range(f) == {f[i] : i \in DOMAIN f}

\* the iteration orders of a set: every sequence listing it once
Orderings(S) ==
    {q \in [1..Cardinality(S) -> S] : \A i, j \in DOMAIN q : i # j => q[i] # q[j]}

\* ", ".join(strs)
RECURSIVE Join(_)
Join(strs) ==
    IF strs = <<>> THEN ""
    ELSE IF Len(strs) = 1 THEN strs[1]
    ELSE strs[1] \o ", " \o Join(Tail(strs))

\* str(v) of a scalar
StrOf(v) ==
    CASE v.t = "str" -> v.v
      [] v.t = "int" -> ToString(v.v)
      [] v.t = "none" -> "None"

\* the code points of the publication dates in the data set
CodePoints(s) ==
    CASE s = "" -> <<>>
      [] s = "2023-05-01" -> <<50, 48, 50, 51, 45, 48, 53, 45, 48, 49>>
      [] s = "2024-12-01" -> <<50, 48, 50, 52, 45, 49, 50, 45, 48, 49>>

\* a < b on Python strings: lexicographic on code points
RECURSIVE LexLess(_, _)
LexLess(a, b) ==
    IF b = <<>> THEN FALSE
    ELSE IF a = <<>> THEN TRUE
    ELSE IF Head(a) # Head(b) THEN Head(a) < Head(b)
    ELSE LexLess(Tail(a), Tail(b))

StrLess(a, b) == LexLess(CodePoints(a), CodePoints(b))

-----------------------------------------------------------------------------
(* The collaborator's backing data set *)

Names == {"APT28", "Ghost"}          \* names and search terms passed to tools

\* an entity as the collaborator returns it from a read or a listing
Entity(cat, n) ==
    [id |-> PyStr("id-" \o cat \o "-" \o n),
     stix_id |-> PyStr(cat \o "--" \o n),
     name |-> PyStr(n)]

\* relationship records: each endpoint is a dict, possibly without some
\* fields, or is absent from the record
RelPool ==
    { [from |-> [id |-> PyStr("id-f1"), stix_id |-> PyStr("threat-actor--111"), name |-> PyStr("Actor1")],
       to   |-> [id |-> PyStr("id-t1"), stix_id |-> PyStr("malware--111"), name |-> PyStr("X-Agent")]],
      [from |-> [id |-> PyStr("id-f2"), name |-> PyStr("Actor2")],
       to   |-> [id |-> PyStr("id-t2"), stix_id |-> PyStr("malware--222")]],
      [from |-> EmptyDict,
       to   |-> [name |-> PyStr("Sofacy")]],
      [to   |-> EmptyDict],
      EmptyDict }

SectorHitPool == {Entity("identity", "Finance"), Entity("identity", "Bank")}

ReportIds == {PyStr("r1"), PyStr("r2"), PyStr("r3")}

\* a report record as report.read returns it
Report(id, fields) ==
    [k \in {"id", "stix_id", "name"} \cup DOMAIN fields |->
        IF k \in DOMAIN fields THEN fields[k]
        ELSE IF k = "id" THEN id
        ELSE IF k = "stix_id" THEN PyStr("report--" \o id.v)
        ELSE PyStr("Report " \o id.v)]

\* what the data set may hold under each report identifier: nothing, or a
\* report whose publication date is set, None or absent
ReportChoices(id) ==
    CASE id = PyStr("r1") ->
            {PyNone,
             Report(id, [published |-> PyStr("2024-12-01"), labels |-> PyList(<<"apt", "russia">>),
                         description |-> PyStr("APT28 report")])}
      [] id = PyStr("r2") ->
            {Report(id, [published |-> PyStr("2024-12-01"), labels |-> PyNone]),
             Report(id, [published |-> PyNone, description |-> PyNone])}
      [] id = PyStr("r3") ->
            {Report(id, [published |-> PyStr("2023-05-01"), labels |-> PyList(<<>>)]),
             Report(id, EmptyDict)}

ReportStores == {st \in [ReportIds -> UNION {ReportChoices(id) : id \in ReportIds}] :
                    \A id \in ReportIds : st[id] \in ReportChoices(id)}

\* relationship records between an actor and reports: the report endpoint
\* carries an internal identifier, or none, or is absent
ForwardReportRelPool ==
    { [to |-> [id |-> PyStr("r1")]], [to |-> [id |-> PyStr("r2")]], EmptyDict }
ReverseReportRelPool ==
    { [from |-> [id |-> PyStr("r2")]], [from |-> [id |-> PyStr("r3")]],
      [from |-> [id |-> PyNone]] }

\* values found under 'aliases': None, a list of strings, or a scalar
AliasValues ==
    {PyNone} \cup {PyList(q) : q \in SeqsUpTo({"alias1", "alias2", "alias3"}, MaxAliases)}
             \cup {PyStr("single_alias"), PyStr(""), PyInt(0), PyInt(7)}

\* entities a listing answers with: aliases, description and stix_id may
\* each be absent, description may be None
ListedEntities ==
    { [k \in keys |->
          CASE k = "name" -> PyStr("TestEntity")
            [] k = "stix_id" -> PyStr("malware--12345")
            [] k = "aliases" -> a
            [] k = "description" -> d] :
        keys \in {ks \cup {"name"} : ks \in SUBSET {"stix_id", "aliases", "description"}},
        a \in AliasValues,
        d \in {PyNone, PyStr("A test malware")} }

\* reports a free-text search answers with: FoundPool and a report that has
\* none of the optional fields
TitledPool ==
    { Report(PyStr("s1"), [published |-> PyStr("2024-12-01"), labels |-> PyList(<<"apt">>)]),
      Report(PyStr("s2"), [published |-> PyNone, labels |-> PyNone, description |-> PyNone]),
      Report(PyStr("s3"), EmptyDict) }

\* reports a free-text search answers with
FoundPool ==
    { Report(PyStr("s1"), [published |-> PyStr("2024-12-01"), labels |-> PyList(<<"apt">>)]),
      Report(PyStr("s2"), [published |-> PyNone, labels |-> PyNone, description |-> PyNone]) }

\* entities a free-text search answers with: each carries the platform's
\* internal identifier; public identifier, aliases and description may be
\* missing
SearchHitPool ==
    { [id |-> PyStr("id-e1"), stix_id |-> PyStr("malware--e1"), name |-> PyStr("Emotet"),
       aliases |-> PyList(<<"Geodo", "Heodo">>), description |-> PyStr("Banking trojan")],
      [id |-> PyStr("id-e2"), name |-> PyStr("Zeus"), description |-> PyNone],
      [id |-> PyStr("id-e3"), stix_id |-> PyStr("malware--e3"), name |-> PyStr("X-Agent"),
       aliases |-> PyNone] }

\* identities a free-text identity search answers with: the identity class
\* names a sector, names something else, is None or is absent
IdentityPool ==
    { [id |-> PyStr("id-i1"), stix_id |-> PyStr("identity--i1"), name |-> PyStr("Finance"),
       identity_class |-> PyStr("class"), description |-> PyStr("Financial sector")],
      [id |-> PyStr("id-i2"), stix_id |-> PyStr("identity--i2"), name |-> PyStr("Energy"),
       identity_class |-> PyStr("Sector"), description |-> PyNone],
      [id |-> PyStr("id-i3"), stix_id |-> PyStr("identity--i3"), name |-> PyStr("John Doe"),
       identity_class |-> PyStr("individual")],
      [id |-> PyStr("id-i4"), stix_id |-> PyStr("identity--i4"), name |-> PyStr("ACME"),
       identity_class |-> PyStr("organization")],
      [id |-> PyStr("id-i5"), name |-> PyStr("Telecom")],
      [id |-> PyStr("id-i6"), stix_id |-> PyStr("identity--i6"), name |-> PyStr("Retail"),
       identity_class |-> PyNone] }

\* the characters of the identity-class strings of the data set
Chars(str) ==
    CASE str = "" -> <<>>
      [] str = "class" -> <<"c", "l", "a", "s", "s">>
      [] str = "sector" -> <<"s", "e", "c", "t", "o", "r">>
      [] str = "Sector" -> <<"S", "e", "c", "t", "o", "r">>
      [] str = "individual" -> <<"i", "n", "d", "i", "v", "i", "d", "u", "a", "l">>
      [] str = "organization" ->
            <<"o", "r", "g", "a", "n", "i", "z", "a", "t", "i", "o", "n">>

\* str.lower(), character by character
Lower(chars) ==
    [i \in DOMAIN chars |->
        CASE chars[i] = "S" -> "s"
          [] chars[i] = "C" -> "c"
          [] OTHER -> chars[i]]

\* sub in chars: sub occurs as a contiguous run
Contains(chars, sub) ==
    \E i \in 0..(Len(chars) - Len(sub)) : SubSeq(chars, i + 1, i + Len(sub)) = sub

\* entity_client.read(filters = name equals entity_name)
ClientRead(cat, n) ==
    IF n \in db.present
    THEN (IF cat = "report" THEN db.titled[n] ELSE Entity(cat, n))
    ELSE PyNone

\* stix_core_relationship.list(fromId=..., toTypes=...) or (toId=..., fromTypes=...)
ClientRelationshipList(params) ==
    IF "fromId" \in DOMAIN params THEN db.fwd ELSE db.rev

\* identity.list(search=...)
ClientIdentityList(params) == db.hits

\* report.read(id=...)
ClientReportRead(id) == IF id \in DOMAIN db.reports THEN db.reports[id] ELSE PyNone

\* report.list(search=..., orderBy=..., orderMode=..., first=...)
ClientReportList(params) == db.found

\* entity_client.list(...): the collaborator's answer to a listing
ClientList(cat, kwargs) == db.listing

\* one collaborator call, as recorded in calls
Call(api, params) == [api |-> api, params |-> params]

\* the entity categories of the client that the server uses
Categories ==
    {"intrusion_set", "malware", "threat_actor", "report", "identity",
     "attack_pattern", "campaign", "vulnerability", "tool"}

\* the filter "name equals n", as the lookups build it
NameFilter(n) ==
    [mode |-> PyStr("and"),
     filters |-> PyList(<<[key |-> PyStr("name"), values |-> PyList(<<n>>)]>>),
     filterGroups |-> PyList(<<>>)]

-----------------------------------------------------------------------------
(* Process start *)

\* the module global before the assignment of line 103 has run
Unbound == [t |-> "unbound"]

IsConstruction(c) == c.api = "OpenCTIApiClient"

\* the object OpenCTIApiClient(url, token) builds: every construction gives
\* a new object, told apart by its serial number within the process
OpenCTIApiClient(url, token) ==
    [t |-> "client", url |-> url, token |-> token, serial |-> Len(constructed) + 1]

\* os.environ: each of the two variables is unset, set, or set to ""
Environments ==
    UNION { {e \in [S -> {PyStr("http://test:8080"), PyStr("test-token"), PyStr("")}] :
                \A k \in S : e[k] \in {PyStr(""),
                                         IF k = "OPENCTI_URL" THEN PyStr("http://test:8080")
                                         ELSE PyStr("test-token")}} :
            S \in SUBSET {"OPENCTI_URL", "OPENCTI_TOKEN"} }

EnvironRead(k) == Call("os.environ.get", [key |-> PyStr(k)])

\* variant: the token is not checked
_create_opencti_client_unchecked ==
    LET api_url == Get(environ, "OPENCTI_URL", PyStr("http://localhost:8080"))
        api_token == Get(environ, "OPENCTI_TOKEN", PyNone)
    IN  [calls |-> <<EnvironRead("OPENCTI_URL"), EnvironRead("OPENCTI_TOKEN"),
                     Call("OpenCTIApiClient", [url |-> api_url, token |-> api_token])>>,
         raised |-> "",
         value |-> OpenCTIApiClient(api_url, api_token)]

\* variant: OPENCTI_URL is not consulted
_create_opencti_client_fixed_url ==
    LET api_url == PyStr("http://localhost:8080")
        api_token == Get(environ, "OPENCTI_TOKEN", PyNone)
    IN  IF ~Truthy(api_token)
        THEN [calls |-> <<EnvironRead("OPENCTI_TOKEN")>>,
              raised |-> "RuntimeError", value |-> Unbound]
        ELSE [calls |-> <<EnvironRead("OPENCTI_TOKEN"),
                          Call("OpenCTIApiClient", [url |-> api_url, token |-> api_token])>>,
              raised |-> "",
              value |-> OpenCTIApiClient(api_url, api_token)]

\* the environment reads and the constructor call it makes, whether it
\* raises, and the handle it returns
_create_opencti_client ==
    LET api_url == Get(environ, "OPENCTI_URL", PyStr("http://localhost:8080"))
        api_token == Get(environ, "OPENCTI_TOKEN", PyNone)
    IN  IF ~Truthy(api_token)
        THEN [calls |-> <<EnvironRead("OPENCTI_URL"), EnvironRead("OPENCTI_TOKEN")>>,
              raised |-> "RuntimeError", value |-> Unbound]
        ELSE [calls |-> <<EnvironRead("OPENCTI_URL"), EnvironRead("OPENCTI_TOKEN"),
                          Call("OpenCTIApiClient", [url |-> api_url, token |-> api_token])>>,
              raised |-> "",
              value |-> OpenCTIApiClient(api_url, api_token)]

-----------------------------------------------------------------------------
(* Helpers and primitives *)

_format_aliases(alias_list) ==
    IF ~Truthy(alias_list) THEN PyStr("")
    ELSE IF alias_list.t = "list" THEN PyStr(Join(alias_list.v))
    ELSE PyStr(StrOf(alias_list))

_format_entity_with_aliases(entity) ==
    [stix_id |-> Get(entity, "stix_id", PyStr("")),
     name |-> Get(entity, "name", PyStr("")),
     aliases |-> _format_aliases(Get(entity, "aliases", PyNone)),
     description |-> GetOr(entity, "description", PyStr(""))]

\* variant: the endpoint's public identifier is looked up under "id"
_format_relationship_target_id_key(relationship) ==
    LET to_obj == Get(relationship, "to", EmptyDict)
    IN  [stix_id |-> Get(to_obj, "id", PyStr("")),
         name |-> Get(to_obj, "name", PyStr(""))]

_format_relationship_target(relationship) ==
    LET to_obj == Get(relationship, "to", EmptyDict)
    IN  [stix_id |-> Get(to_obj, "stix_id", PyStr("")),
         name |-> Get(to_obj, "name", PyStr(""))]

\* variant: a client is built from the environment for every lookup
_find_entity_by_name_reconnect(entity_type, entity_name) ==
    [calls |-> _create_opencti_client.calls
               \o <<Call(entity_type \o ".read", NameFilter(entity_name))>>,
     value |-> ClientRead(entity_type, entity_name)]

\* variant: a lookup that found nothing falls back to a search and takes
\* its first hit
_find_entity_by_name_search(entity_type, entity_name) ==
    LET read == ClientRead(entity_type, entity_name)
        hits == ClientList(entity_type, [search |-> entity_name])
    IN  IF read = PyNone
        THEN [calls |-> <<Call(entity_type \o ".read", NameFilter(entity_name)),
                          Call(entity_type \o ".list", [search |-> entity_name])>>,
              value |-> IF hits = <<>> THEN PyNone ELSE hits[1]]
        ELSE [calls |-> <<Call(entity_type \o ".read", NameFilter(entity_name))>>,
              value |-> read]

_find_entity_by_name(entity_type, entity_name) ==
    [calls |-> <<Call(entity_type \o ".read", NameFilter(entity_name))>>,
     value |-> ClientRead(entity_type, entity_name)]

_get_related_entities(from_entity_id, to_types) ==
    LET params == [fromId |-> from_entity_id, toTypes |-> PyList(to_types)]
        relations == ClientRelationshipList(params)
    IN  [calls |-> <<Call("stix_core_relationship.list", params)>>,
         value |-> [i \in 1..Len(relations) |->
                        _format_relationship_target(relations[i])]]

\* variant: the reverse traversal projects the target endpoint
_get_reverse_related_entities_to_side(to_entity_id, from_types) ==
    LET params == [toId |-> to_entity_id, fromTypes |-> PyList(from_types)]
        relations == ClientRelationshipList(params)
    IN  [calls |-> <<Call("stix_core_relationship.list", params)>>,
         value |-> [i \in 1..Len(relations) |->
                        _format_relationship_target(relations[i])]]

_get_reverse_related_entities(to_entity_id, from_types) ==
    LET params == [toId |-> to_entity_id, fromTypes |-> PyList(from_types)]
        relations == ClientRelationshipList(params)
    IN  [calls |-> <<Call("stix_core_relationship.list", params)>>,
         value |-> [i \in 1..Len(relations) |->
                        LET from_obj == Get(relations[i], "from", EmptyDict)
                        IN  [stix_id |-> Get(from_obj, "stix_id", PyStr("")),
                             name |-> Get(from_obj, "name", PyStr(""))]]]

\* variant: the cap is attached together with the sort parameters only
_find_entity_by_filter_cap_with_sort(entity_type, filters, order_by, order_mode, limit) ==
    LET kwargs == IF Truthy(order_by)
                  THEN [filters |-> filters, first |-> PyInt(limit),
                        orderBy |-> order_by, orderMode |-> PyStr(order_mode)]
                  ELSE [filters |-> filters]
    IN  [calls |-> <<Call(entity_type \o ".list", kwargs)>>,
         value |-> ClientList(entity_type, kwargs)]

_find_entity_by_filter(entity_type, filters, order_by, order_mode, limit) ==
    LET kwargs == IF Truthy(order_by)
                  THEN [filters |-> filters, first |-> PyInt(limit),
                        orderBy |-> order_by, orderMode |-> PyStr(order_mode)]
                  ELSE [filters |-> filters, first |-> PyInt(limit)]
    IN  [calls |-> <<Call(entity_type \o ".list", kwargs)>>,
         value |-> ClientList(entity_type, kwargs)]

-----------------------------------------------------------------------------
(* Tools.  Each tool is an operator giving the collaborator calls it      *)
(* issues, in order, and the value it returns.                            *)

\* the tool returns v after the calls of step
Return(step, v) == [calls |-> step.calls, value |-> v]

\* the tool goes on with next after the calls of step
AndThen(step, next) == [calls |-> step.calls \o next.calls, value |-> next.value]

\* variant: an intrusion set that is not found is created, then traversed
get_malwares_of_intrusion_set_create(intrusion_set_name) ==
    LET intrusion_set == _find_entity_by_name("intrusion_set", intrusion_set_name)
        created == [calls |-> <<Call("intrusion_set.create", [name |-> PyStr(intrusion_set_name)])>>,
                    value |-> Entity("intrusion_set", intrusion_set_name)]
    IN  IF intrusion_set.value = PyNone
        THEN AndThen(AndThen(intrusion_set, created),
                     _get_related_entities(created.value.id, <<"Malware">>))
        ELSE AndThen(intrusion_set, _get_related_entities(intrusion_set.value.id, <<"Malware">>))

\* variant: an intrusion set that is not found is answered with None
get_malwares_of_intrusion_set_none(intrusion_set_name) ==
    LET intrusion_set == _find_entity_by_name("intrusion_set", intrusion_set_name)
    IN  IF intrusion_set.value = PyNone
        THEN Return(intrusion_set, PyNone)
        ELSE AndThen(intrusion_set, _get_related_entities(intrusion_set.value.id, <<"Malware">>))

\* variant: the relationship query is issued whether or not the lookup
\* found the intrusion set
get_malwares_of_intrusion_set_unguarded(intrusion_set_name) ==
    LET intrusion_set == _find_entity_by_name("intrusion_set", intrusion_set_name)
        id == IF intrusion_set.value = PyNone THEN PyNone ELSE intrusion_set.value.id
    IN  AndThen(intrusion_set, _get_related_entities(id, <<"Malware">>))

get_malwares_of_intrusion_set(intrusion_set_name) ==
    LET intrusion_set == _find_entity_by_name("intrusion_set", intrusion_set_name)
    IN  IF intrusion_set.value = PyNone
        THEN Return(intrusion_set, <<>>)
        ELSE AndThen(intrusion_set, _get_related_entities(intrusion_set.value.id, <<"Malware">>))

get_attack_patterns_of_intrusion_set(intrusion_set_name) ==
    LET intrusion_set == _find_entity_by_name("intrusion_set", intrusion_set_name)
    IN  IF intrusion_set.value = PyNone
        THEN Return(intrusion_set, <<>>)
        ELSE AndThen(intrusion_set, _get_related_entities(intrusion_set.value.id, <<"Attack-Pattern">>))

get_vulnerabilities_of_malware(malware_name) ==
    LET malware == _find_entity_by_name("malware", malware_name)
    IN  IF malware.value = PyNone
        THEN Return(malware, <<>>)
        ELSE AndThen(malware, _get_related_entities(malware.value.id, <<"Vulnerability">>))

get_tools_used_by_intrusion_set(intrusion_set_name) ==
    LET intrusion_set == _find_entity_by_name("intrusion_set", intrusion_set_name)
    IN  IF intrusion_set.value = PyNone
        THEN Return(intrusion_set, <<>>)
        ELSE AndThen(intrusion_set, _get_related_entities(intrusion_set.value.id, <<"Tool">>))

get_malwares_of_report(report_title) ==
    LET report == _find_entity_by_name("report", report_title)
    IN  IF report.value = PyNone
        THEN Return(report, <<>>)
        ELSE AndThen(report, _get_related_entities(report.value.id, <<"Malware">>))

get_intrusion_sets_of_report(report_title) ==
    LET report == _find_entity_by_name("report", report_title)
    IN  IF report.value = PyNone
        THEN Return(report, <<>>)
        ELSE AndThen(report, _get_related_entities(report.value.id, <<"Intrusion-Set">>))

get_ttps_of_threat_actor(threat_actor_name) ==
    LET threat_actor == _find_entity_by_name("threat_actor", threat_actor_name)
    IN  IF threat_actor.value = PyNone
        THEN Return(threat_actor, <<>>)
        ELSE AndThen(threat_actor, _get_related_entities(threat_actor.value.id, <<"Attack-Pattern">>))

get_malwares_used_by_threat_actor(threat_actor_name) ==
    LET threat_actor == _find_entity_by_name("threat_actor", threat_actor_name)
    IN  IF threat_actor.value = PyNone
        THEN Return(threat_actor, <<>>)
        ELSE AndThen(threat_actor, _get_related_entities(threat_actor.value.id, <<"Malware">>))

get_campaigns_by_threat_actor(threat_actor_name) ==
    LET threat_actor == _find_entity_by_name("threat_actor", threat_actor_name)
    IN  IF threat_actor.value = PyNone
        THEN Return(threat_actor, <<>>)
        ELSE AndThen(threat_actor, _get_related_entities(threat_actor.value.id, <<"Campaign">>))

get_vulnerabilities_exploited_by_threat_actor(threat_actor_name) ==
    LET threat_actor == _find_entity_by_name("threat_actor", threat_actor_name)
    IN  IF threat_actor.value = PyNone
        THEN Return(threat_actor, <<>>)
        ELSE AndThen(threat_actor, _get_related_entities(threat_actor.value.id, <<"Vulnerability">>))

\* variant: the TTP tool resolves the name as a threat actor
get_ttps_of_intrusion_set_as_threat_actor(intrusion_set_name) ==
    get_ttps_of_threat_actor(intrusion_set_name)

get_ttps_of_intrusion_set(intrusion_set_name) ==
    get_attack_patterns_of_intrusion_set(intrusion_set_name)

get_threat_actors_targeting_sector(sector_name, limit) ==
    LET read == [calls |-> <<Call("identity.read", NameFilter(sector_name))>>,
                 value |-> ClientRead("identity", sector_name)]
        search_params == [search |-> PyStr(sector_name), first |-> PyInt(1)]
        search == [calls |-> <<Call("identity.list", search_params)>>,
                   value |-> ClientIdentityList(search_params)]
        targeting(sector) ==
            LET rev == _get_reverse_related_entities(sector.id, <<"Threat-Actor">>)
            IN  [calls |-> rev.calls, value |-> Slice(rev.value, limit)]
    IN  IF read.value = PyNone
        THEN IF search.value = <<>>
             THEN Return(AndThen(read, search), <<>>)
             ELSE AndThen(AndThen(read, search), targeting(search.value[1]))
        ELSE AndThen(read, targeting(read.value))

\* variant: the fallback takes the last search hit, sectors[-1]
get_intrusion_sets_targeting_sector_last_hit(sector_name, limit) ==
    LET read == [calls |-> <<Call("identity.read", NameFilter(sector_name))>>,
                 value |-> ClientRead("identity", sector_name)]
        search_params == [search |-> PyStr(sector_name), first |-> PyInt(1)]
        search == [calls |-> <<Call("identity.list", search_params)>>,
                   value |-> ClientIdentityList(search_params)]
        targeting(sector) ==
            LET rev == _get_reverse_related_entities(sector.id, <<"Intrusion-Set">>)
            IN  [calls |-> rev.calls, value |-> Slice(rev.value, limit)]
    IN  IF read.value = PyNone
        THEN IF search.value = <<>>
             THEN Return(AndThen(read, search), <<>>)
             ELSE AndThen(AndThen(read, search),
                          targeting(search.value[Len(search.value)]))
        ELSE AndThen(read, targeting(read.value))

get_intrusion_sets_targeting_sector(sector_name, limit) ==
    LET read == [calls |-> <<Call("identity.read", NameFilter(sector_name))>>,
                 value |-> ClientRead("identity", sector_name)]
        search_params == [search |-> PyStr(sector_name), first |-> PyInt(1)]
        search == [calls |-> <<Call("identity.list", search_params)>>,
                   value |-> ClientIdentityList(search_params)]
        targeting(sector) ==
            LET rev == _get_reverse_related_entities(sector.id, <<"Intrusion-Set">>)
            IN  [calls |-> rev.calls, value |-> Slice(rev.value, limit)]
    IN  IF read.value = PyNone
        THEN IF search.value = <<>>
             THEN Return(AndThen(read, search), <<>>)
             ELSE AndThen(AndThen(read, search), targeting(search.value[1]))
        ELSE AndThen(read, targeting(read.value))

search_malware(search_term) ==
    LET params == [search |-> PyStr(search_term)]
        malwares == ClientList("malware", params)
    IN  [calls |-> <<Call("malware.list", params)>>,
         value |-> [i \in 1..Len(malwares) |-> _format_entity_with_aliases(malwares[i])]]

search_intrusion_sets(search_term) ==
    LET params == [search |-> PyStr(search_term)]
        intrusion_sets == ClientList("intrusion_set", params)
    IN  [calls |-> <<Call("intrusion_set.list", params)>>,
         value |-> [i \in 1..Len(intrusion_sets) |-> _format_entity_with_aliases(intrusion_sets[i])]]

search_attack_patterns(search_term) ==
    LET params == [search |-> PyStr(search_term)]
        patterns == ClientList("attack_pattern", params)
    IN  [calls |-> <<Call("attack_pattern.list", params)>>,
         value |-> [i \in 1..Len(patterns) |-> _format_entity_with_aliases(patterns[i])]]

search_campaigns(search_term) ==
    LET params == [search |-> PyStr(search_term)]
        campaigns == ClientList("campaign", params)
    IN  [calls |-> <<Call("campaign.list", params)>>,
         value |-> [i \in 1..Len(campaigns) |-> _format_entity_with_aliases(campaigns[i])]]

search_vulnerabilities(search_term) ==
    LET params == [search |-> PyStr(search_term)]
        vulnerabilities == ClientList("vulnerability", params)
    IN  [calls |-> <<Call("vulnerability.list", params)>>,
         value |-> [i \in 1..Len(vulnerabilities) |-> _format_entity_with_aliases(vulnerabilities[i])]]

search_threat_actors(search_term) ==
    LET params == [search |-> PyStr(search_term)]
        actors == ClientList("threat_actor", params)
    IN  [calls |-> <<Call("threat_actor.list", params)>>,
         value |-> [i \in 1..Len(actors) |-> _format_entity_with_aliases(actors[i])]]

search_tools(search_term) ==
    LET params == [search |-> PyStr(search_term)]
        tools == ClientList("tool", params)
    IN  [calls |-> <<Call("tool.list", params)>>,
         value |-> [i \in 1..Len(tools) |-> _format_entity_with_aliases(tools[i])]]

\* the test of line 1055 on one identity class (a string)
KeptAsSector(identity_class) ==
    \/ Contains(Lower(Chars(identity_class)), Chars("sector"))
    \/ Contains(Lower(Chars(identity_class)), Chars("class"))
    \/ identity_class = ""

\* identity_class.lower() raises AttributeError on None: the loop ends at
\* the first identity whose class is None
search_sectors(search_term) ==
    LET params == [search |-> PyStr(search_term)]
        identities == ClientIdentityList(params)
        class(i) == Get(identities[i], "identity_class", PyStr(""))
        kept_ones == {i \in 1..Len(identities) : class(i) # PyNone /\ KeptAsSector(class(i).v)}
        Kept(x) == x \in kept_ones
        positions == SelectSeq([i \in 1..Len(identities) |-> i], Kept)
    IN  IF \E i \in 1..Len(identities) : class(i) = PyNone
        THEN [calls |-> <<Call("identity.list", params)>>,
              raised |-> "AttributeError",
              value |-> PyStr("AttributeError")]
        ELSE [calls |-> <<Call("identity.list", params)>>,
              value |-> [j \in 1..Len(positions) |->
                            [stix_id |-> Get(identities[positions[j]], "stix_id", PyStr("")),
                             name |-> Get(identities[positions[j]], "name", PyStr("")),
                             description |-> GetOr(identities[positions[j]], "description", PyStr(""))]]]

\* a dict (or None) tested for truth: None and {} are falsy
DictTruthy(d) == d # PyNone /\ d # EmptyDict

\* the presentation of one report record (the loop body at the end of every
\* report-bearing tool)
FormatReport(report) ==
    LET published == GetOr(report, "published", PyStr(""))
        labels == GetOr(report, "labels", PyList(<<>>))
        labels_str == IF labels.t = "list" THEN Join(labels.v) ELSE StrOf(labels)
    IN  [stix_id |-> Get(report, "stix_id", PyStr("")),
         name |-> Get(report, "name", PyStr("")),
         published |-> published,
         labels |-> PyStr(labels_str),
         description |-> GetOr(report, "description", PyStr(""))]

FormatReports(reports) == [i \in 1..Len(reports) |-> FormatReport(reports[i])]

search_reports(search_term) ==
    LET params == [search |-> PyStr(search_term)]
        reports == ClientReportList(params)
    IN  [calls |-> <<Call("report.list", params)>>, value |-> FormatReports(reports)]

get_latest_reports_by_sector(sector_name, limit) ==
    LET params == [search |-> PyStr(sector_name), orderBy |-> PyStr("published"),
                   orderMode |-> PyStr("desc"), first |-> PyInt(limit)]
        reports == ClientReportList(params)
    IN  [calls |-> <<Call("report.list", params)>>, value |-> FormatReports(reports)]

\* variant: the listing's answer is cut to the limit on the client side
get_latest_reports_truncated(limit) ==
    LET params == [orderBy |-> PyStr("published"), orderMode |-> PyStr("desc"),
                   first |-> PyInt(limit)]
        reports == ClientReportList(params)
    IN  [calls |-> <<Call("report.list", params)>>,
         value |-> FormatReports(Slice(reports, limit))]

get_latest_reports(limit) ==
    LET params == [orderBy |-> PyStr("published"), orderMode |-> PyStr("desc"),
                   first |-> PyInt(limit)]
        reports == ClientReportList(params)
    IN  [calls |-> <<Call("report.list", params)>>, value |-> FormatReports(reports)]

\* variant: the not-found answer is None
get_report_details_none(report_title) ==
    LET report == _find_entity_by_name("report", report_title)
    IN  IF report.value = PyNone
        THEN Return(report, PyNone)
        ELSE Return(report, FormatReport(report.value))

get_report_details(report_title) ==
    LET report == _find_entity_by_name("report", report_title)
        labels == GetOr(report.value, "labels", PyList(<<>>))
        labels_str == IF labels.t = "list" THEN Join(labels.v) ELSE StrOf(labels)
    IN  IF report.value = PyNone
        THEN Return(report, [stix_id |-> PyStr(""), name |-> PyStr(""),
                             published |-> PyStr(""), labels |-> PyStr(""),
                             description |-> PyStr("")])
        ELSE Return(report,
                    [stix_id |-> Get(report.value, "stix_id", PyStr("")),
                     name |-> Get(report.value, "name", PyStr("")),
                     published |-> Get(report.value, "published", PyStr("")),
                     labels |-> PyStr(labels_str),
                     description |-> GetOr(report.value, "description", PyStr(""))])

\* variant: the identifier of every endpoint is collected, whatever it is
CollectReportIds_unchecked(relations, reverse_relations) ==
    [i \in 1..Len(relations) |->
        Get(Get(relations[i], "to", EmptyDict), "id", PyNone)]
    \o [i \in 1..Len(reverse_relations) |->
        Get(Get(reverse_relations[i], "from", EmptyDict), "id", PyNone)]

\* the report identifiers collected from the two relationship lists: the
\* truthy 'id' of every 'to' endpoint, then of every 'from' endpoint
CollectReportIds(relations, reverse_relations) ==
    LET to_ids == [i \in 1..Len(relations) |->
                      Get(Get(relations[i], "to", EmptyDict), "id", PyNone)]
        from_ids == [i \in 1..Len(reverse_relations) |->
                        Get(Get(reverse_relations[i], "from", EmptyDict), "id", PyNone)]
    IN  SelectSeq(to_ids, Truthy) \o SelectSeq(from_ids, Truthy)

\* the sort key: r.get("published") or ""
PublishedKey(r) == GetOr(r, "published", PyStr("")).v

\* variant: reverse=True left out, an ascending stable sort
RECURSIVE SortByPublishedAsc(_)
SortByPublishedAsc(reports) ==
    IF reports = <<>> THEN <<>>
    ELSE LET rest == SortByPublishedAsc(SubSeq(reports, 1, Len(reports) - 1))
             x == reports[Len(reports)]
             greater == {i \in 1..Len(rest) : StrLess(PublishedKey(x), PublishedKey(rest[i]))}
             at == IF greater = {} THEN Len(rest) + 1
                   ELSE CHOOSE i \in greater : \A j \in greater : i <= j
         IN  SubSeq(rest, 1, at - 1) \o <<x>> \o SubSeq(rest, at, Len(rest))

\* reports.sort(key=lambda r: r.get("published") or "", reverse=True): the
\* last element x is put into the sorted rest behind every element whose
\* key is not smaller (equal keys keep their order: the sort is stable)
RECURSIVE SortByPublishedDesc(_)
SortByPublishedDesc(reports) ==
    IF reports = <<>> THEN <<>>
    ELSE LET sorted == SortByPublishedDesc(SubSeq(reports, 1, Len(reports) - 1))
             x == reports[Len(reports)]
             smaller == {i \in 1..Len(sorted) :
                            StrLess(PublishedKey(sorted[i]), PublishedKey(x))}
             at == IF smaller = {} THEN Len(sorted) + 1
                   ELSE CHOOSE i \in smaller : \A j \in smaller : i <= j
         IN  SubSeq(sorted, 1, at - 1) \o <<x>> \o SubSeq(sorted, at, Len(sorted))

\* variant: the list is cut to the limit first and sorted afterwards
SortAndCap_cap_first(reports, limit) == SortByPublishedDesc(Slice(reports, limit))

\* reports.sort(...) followed by reports = reports[:limit]
SortAndCap(reports, limit) == Slice(SortByPublishedDesc(reports), limit)

\* variant: the fallback search is not capped
FallbackSearchParams_uncapped(threat_actor_name, limit) ==
    [search |-> PyStr(threat_actor_name), orderBy |-> PyStr("published"),
     orderMode |-> PyStr("desc")]

\* the arguments of the fallback report search
FallbackSearchParams(threat_actor_name, limit) ==
    [search |-> PyStr(threat_actor_name), orderBy |-> PyStr("published"),
     orderMode |-> PyStr("desc"), first |-> PyInt(limit)]

\* variant: the collected identifiers are fetched one by one, duplicates included
DistinctIds_keep_all(report_ids, order) == report_ids

\* for report_id in set(report_ids): the distinct identifiers, in the
\* iteration order of the set
DistinctIds(report_ids, order) == order

\* order is the iteration order of set(report_ids), which Python leaves open
get_latest_reports_mentioning_threat_actor(threat_actor_name, limit, order) ==
    LET threat_actor == _find_entity_by_name("threat_actor", threat_actor_name)
        search_params == FallbackSearchParams(threat_actor_name, limit)
        found == ClientReportList(search_params)
        id == threat_actor.value.id
        forward_params == [fromId |-> id, toTypes |-> PyList(<<"Report">>)]
        reverse_params == [toId |-> id, fromTypes |-> PyList(<<"Report">>)]
        relations == ClientRelationshipList(forward_params)
        reverse_relations == ClientRelationshipList(reverse_params)
        report_ids == CollectReportIds(relations, reverse_relations)
        to_read == DistinctIds(report_ids, order)
        read == [i \in 1..Len(to_read) |-> ClientReportRead(to_read[i])]
        reports == SortAndCap(SelectSeq(read, DictTruthy), limit)
    IN  IF threat_actor.value = PyNone
        THEN [calls |-> threat_actor.calls \o <<Call("report.list", search_params)>>,
              reports |-> found,
              value |-> FormatReports(found)]
        ELSE [calls |-> threat_actor.calls
                        \o <<Call("stix_core_relationship.list", forward_params),
                             Call("stix_core_relationship.list", reverse_params)>>
                        \o [i \in 1..Len(to_read) |->
                                Call("report.read", [id |-> to_read[i]])],
              reports |-> reports,
              value |-> FormatReports(reports)]

-----------------------------------------------------------------------------
(* The state machine: one action per tool invocation.  The server is     *)
(* single-threaded and synchronous: it takes a tool call when it is idle, *)
(* runs it to its return, delivers the response and is idle again.        *)

Limits == (0 - MaxLimit)..MaxLimit

\* the names of the entities the calls cs create
Creations(cs) ==
    {cs[i].params.name.v : i \in {j \in DOMAIN cs : cs[j].api \in {c \o ".create" : c \in Categories}}}

\* the collaborator serves every call
NoFault == [at |-> 0, exc |-> ""]

\* the faults of the collaborator: the call at position 'at' of an
\* invocation ends with the exception exc
Faults == {NoFault} \cup [at : 1..MaxCalls, exc : {"ConnectionError", "PermissionError"}]

\* variant: the exception of a failed call is caught and the tool returns
\* an empty list
Propagate_swallowed(run, k, exc) ==
    [calls |-> SubSeq(run.calls, 1, k), value |-> <<>>]

\* call k of the invocation raises exc.  No function of the module has a
\* try statement, so the exception leaves the tool function at that call:
\* the calls before it were made as in run, none is made after it, and the
\* invocation ends with exc
Propagate(run, k, exc) ==
    [calls |-> SubSeq(run.calls, 1, k), raised |-> exc, value |-> PyStr(exc)]

\* the invocation run as the collaborator of this data set serves it
Served(run) ==
    IF db.fault.at \in 1..Len(run.calls)
    THEN Propagate(run, db.fault.at, db.fault.exc)
    ELSE run

\* a tool invocation ran to its return statement or to an exception; f is
\* the tool's local list of reports at its return (empty for tools without
\* one).  The collaborator has served the calls: reads and listings leave
\* the backing data set as it is, a creation adds the entity
InvokeWith(t, a, run, f) ==
    /\ outcome = "idle"
    /\ tool' = t
    /\ args' = a
    /\ calls' = Served(run).calls
    /\ outcome' = IF "raised" \in DOMAIN Served(run) THEN "raised" ELSE "returned"
    /\ result' = Served(run).value
    /\ fetched' = IF "raised" \in DOMAIN Served(run) THEN <<>> ELSE f
    /\ db' = [db EXCEPT
                 !.present = @ \cup Creations(Served(run).calls),
                 !.titled = [n \in DOMAIN @ \cup Creations(Served(run).calls) |->
                                IF n \in DOMAIN @ THEN @[n] ELSE Entity("report", n)]]
    /\ constructed' = constructed \o SelectSeq(Served(run).calls, IsConstruction)
    /\ UNCHANGED <<environ, _cti_client, hashseed, kept>>

Invoke(t, a, run) == InvokeWith(t, a, run, <<>>)

\* no response kept by the caller
NoResponse == [tool |-> "none"]

\* the process has started with token and URL set, built its client, and
\* no tool has been called yet
Idle ==
    /\ tool = "none"
    /\ args = EmptyDict
    /\ calls = <<>>
    /\ outcome = "idle"
    /\ result = <<>>
    /\ fetched = <<>>
    /\ environ = [OPENCTI_URL |-> PyStr("http://test:8080"), OPENCTI_TOKEN |-> PyStr("test-token")]
    /\ _cti_client = [t |-> "client", url |-> PyStr("http://test:8080"),
                      token |-> PyStr("test-token"), serial |-> 1]
    /\ constructed = <<Call("OpenCTIApiClient", [url |-> PyStr("http://test:8080"),
                                                  token |-> PyStr("test-token")])>>
    /\ kept = NoResponse

NoReports == [r \in {} |-> PyNone]

\* the response is delivered; nothing of the finished invocation is kept
Respond ==
    /\ outcome \in {"returned", "raised"}
    /\ tool' = "none"
    /\ args' = EmptyDict
    /\ calls' = <<>>
    /\ outcome' = "idle"
    /\ result' = <<>>
    /\ fetched' = <<>>
    /\ UNCHANGED <<db, environ, _cti_client, constructed, hashseed, kept>>

\* the hash seeds of a process, each represented by the order in which it
\* makes a set of the identifiers collectable from fwd and rev iterate
HashSeeds(fwd, rev) == Orderings(Range(CollectReportIds(fwd, rev)))

\* the response is delivered and the caller keeps a copy of it
RespondAndKeep ==
    /\ outcome = "returned"
    /\ tool # "_create_opencti_client"
    /\ kept' = [tool |-> tool, args |-> args, calls |-> calls, result |-> result,
                seed |-> hashseed]
    /\ tool' = "none"
    /\ args' = EmptyDict
    /\ calls' = <<>>
    /\ outcome' = "idle"
    /\ result' = <<>>
    /\ fetched' = <<>>
    /\ UNCHANGED <<db, environ, _cti_client, constructed, hashseed>>

\* the module is loaded: line 103 runs _create_opencti_client and binds
\* _cti_client, or the RuntimeError ends the process
Import ==
    /\ outcome = "loading"
    /\ LET run == _create_opencti_client
       IN  /\ tool' = "_create_opencti_client"
           /\ args' = EmptyDict
           /\ calls' = run.calls
           /\ constructed' = constructed \o SelectSeq(run.calls, IsConstruction)
           /\ _cti_client' = run.value
           /\ outcome' = IF run.raised = "" THEN "returned" ELSE "failed"
           /\ result' = IF run.raised = "" THEN run.value ELSE PyStr(run.raised)
           /\ fetched' = <<>>
    /\ UNCHANGED <<db, environ, hashseed, kept>>

\* the server process is stopped and started again over the same backing
\* data set and environment: the new interpreter draws a new hash seed and
\* loads the module afresh
Restart ==
    /\ outcome = "idle"
    /\ outcome' = "loading"
    /\ hashseed' \in HashSeeds(db.fwd, db.rev)
    /\ _cti_client' = Unbound
    /\ constructed' = <<>>
    /\ UNCHANGED <<db, tool, args, calls, result, fetched, environ, kept>>

\* the names a lookup is tried with: the stored names, a differently cased
\* spelling of one and a proper prefix of one
Run_find_entity_by_name ==
    \E entity_type \in Categories, entity_name \in Names \cup {"apt28", "APT"} :
        Invoke("_find_entity_by_name",
               [entity_type |-> entity_type, entity_name |-> entity_name],
               _find_entity_by_name(entity_type, entity_name))

Run_get_related_entities ==
    \E id \in {PyStr("id-x")}, ty \in {"Malware", "Threat-Actor"} :
        Invoke("_get_related_entities", [id |-> id, types |-> <<ty>>],
               _get_related_entities(id, <<ty>>))

Run_get_reverse_related_entities ==
    \E id \in {PyStr("id-x")}, ty \in {"Malware", "Threat-Actor"} :
        Invoke("_get_reverse_related_entities", [id |-> id, types |-> <<ty>>],
               _get_reverse_related_entities(id, <<ty>>))

Tool_get_malwares_of_intrusion_set ==
    \E n \in Names : Invoke("get_malwares_of_intrusion_set", [name |-> n], get_malwares_of_intrusion_set(n))

Tool_get_attack_patterns_of_intrusion_set ==
    \E n \in Names : Invoke("get_attack_patterns_of_intrusion_set", [name |-> n], get_attack_patterns_of_intrusion_set(n))

Tool_get_vulnerabilities_of_malware ==
    \E n \in Names : Invoke("get_vulnerabilities_of_malware", [name |-> n], get_vulnerabilities_of_malware(n))

Tool_get_tools_used_by_intrusion_set ==
    \E n \in Names : Invoke("get_tools_used_by_intrusion_set", [name |-> n], get_tools_used_by_intrusion_set(n))

Tool_get_malwares_of_report ==
    \E n \in Names : Invoke("get_malwares_of_report", [name |-> n], get_malwares_of_report(n))

Tool_get_intrusion_sets_of_report ==
    \E n \in Names : Invoke("get_intrusion_sets_of_report", [name |-> n], get_intrusion_sets_of_report(n))

Tool_get_ttps_of_threat_actor ==
    \E n \in Names : Invoke("get_ttps_of_threat_actor", [name |-> n], get_ttps_of_threat_actor(n))

Tool_get_ttps_of_intrusion_set ==
    \E n \in Names : Invoke("get_ttps_of_intrusion_set", [name |-> n], get_ttps_of_intrusion_set(n))

Tool_get_malwares_used_by_threat_actor ==
    \E n \in Names : Invoke("get_malwares_used_by_threat_actor", [name |-> n], get_malwares_used_by_threat_actor(n))

Tool_get_campaigns_by_threat_actor ==
    \E n \in Names : Invoke("get_campaigns_by_threat_actor", [name |-> n], get_campaigns_by_threat_actor(n))

Tool_get_vulnerabilities_exploited_by_threat_actor ==
    \E n \in Names : Invoke("get_vulnerabilities_exploited_by_threat_actor", [name |-> n], get_vulnerabilities_exploited_by_threat_actor(n))

Tool_get_threat_actors_targeting_sector ==
    \E n \in Names, l \in Limits :
        Invoke("get_threat_actors_targeting_sector", [name |-> n, limit |-> l], get_threat_actors_targeting_sector(n, l))

Tool_get_intrusion_sets_targeting_sector ==
    \E n \in Names, l \in Limits :
        Invoke("get_intrusion_sets_targeting_sector", [name |-> n, limit |-> l], get_intrusion_sets_targeting_sector(n, l))

\* _format_aliases applied to what the first listed entity has under 'aliases'
Run_format_aliases ==
    /\ db.listing # <<>>
    /\ LET alias_list == Get(db.listing[1], "aliases", PyNone)
       IN  Invoke("_format_aliases", [alias_list |-> alias_list],
                  [calls |-> <<>>, value |-> _format_aliases(alias_list)])

Run_format_entity_with_aliases ==
    /\ db.listing # <<>>
    /\ Invoke("_format_entity_with_aliases", [entity |-> db.listing[1]],
              [calls |-> <<>>, value |-> _format_entity_with_aliases(db.listing[1])])

Tool_search_malware ==
    \E t \in Names : Invoke("search_malware", [search_term |-> t], search_malware(t))

Tool_search_intrusion_sets ==
    \E t \in Names : Invoke("search_intrusion_sets", [search_term |-> t], search_intrusion_sets(t))

Tool_search_attack_patterns ==
    \E t \in Names : Invoke("search_attack_patterns", [search_term |-> t], search_attack_patterns(t))

Tool_search_campaigns ==
    \E t \in Names : Invoke("search_campaigns", [search_term |-> t], search_campaigns(t))

Tool_search_vulnerabilities ==
    \E t \in Names : Invoke("search_vulnerabilities", [search_term |-> t], search_vulnerabilities(t))

Tool_search_threat_actors ==
    \E t \in Names : Invoke("search_threat_actors", [search_term |-> t], search_threat_actors(t))

Tool_search_tools ==
    \E t \in Names : Invoke("search_tools", [search_term |-> t], search_tools(t))

Tool_search_sectors ==
    \E t \in Names : Invoke("search_sectors", [search_term |-> t], search_sectors(t))

Tool_search_reports ==
    \E t \in Names : Invoke("search_reports", [search_term |-> t], search_reports(t))

Tool_get_latest_reports_by_sector ==
    \E n \in Names, l \in Limits :
        Invoke("get_latest_reports_by_sector", [name |-> n, limit |-> l],
               get_latest_reports_by_sector(n, l))

Tool_get_latest_reports ==
    \E l \in Limits : Invoke("get_latest_reports", [limit |-> l], get_latest_reports(l))

\* the filter is a name filter; the sort field is left at its default
\* None, is empty, or names a field
Run_find_entity_by_filter ==
    \E entity_type \in {"report", "threat_actor"},
       filters \in {NameFilter(n) : n \in Names},
       order_by \in {PyNone, PyStr(""), PyStr("published")},
       order_mode \in {"asc", "desc"}, limit \in Limits :
        Invoke("_find_entity_by_filter",
               [entity_type |-> entity_type, filters |-> filters, order_by |-> order_by,
                order_mode |-> order_mode, limit |-> limit],
               _find_entity_by_filter(entity_type, filters, order_by, order_mode, limit))

Tool_get_report_details ==
    \E n \in Names : Invoke("get_report_details", [name |-> n], get_report_details(n))

\* ids are the identifiers the tool iterates over as a set, order their
\* iteration order in this process
Tool_get_latest_reports_mentioning_threat_actor ==
    \E n \in Names, l \in Limits :
        LET ids == IF n \in db.present THEN Range(CollectReportIds(db.fwd, db.rev)) ELSE {}
            Member(x) == x \in ids
            order == SelectSeq(hashseed, Member)
            run == get_latest_reports_mentioning_threat_actor(n, l, order)
        IN  InvokeWith("get_latest_reports_mentioning_threat_actor",
                       [name |-> n, limit |-> l], run, run.reports)

ForwardTools ==
    {"get_malwares_of_intrusion_set",
     "get_attack_patterns_of_intrusion_set",
     "get_vulnerabilities_of_malware",
     "get_tools_used_by_intrusion_set",
     "get_malwares_of_report",
     "get_intrusion_sets_of_report",
     "get_ttps_of_threat_actor",
     "get_ttps_of_intrusion_set",
     "get_malwares_used_by_threat_actor",
     "get_campaigns_by_threat_actor",
     "get_vulnerabilities_exploited_by_threat_actor"}

SectorTools ==
    {"get_threat_actors_targeting_sector", "get_intrusion_sets_targeting_sector"}

\* the backing data set
Db(present, fwd, rev, hits, reports, found, listing) ==
    [present |-> present, fwd |-> fwd, rev |-> rev, hits |-> hits,
     reports |-> reports, found |-> found, listing |-> listing,
     titled |-> [n \in present |-> Entity("report", n)],
     fault |-> NoFault]

\* the data set d behind a collaborator with the fault f
WithFault(d, f) == [d EXCEPT !.fault = f]

ForwardToolsNext ==
    \/ Tool_get_malwares_of_intrusion_set
    \/ Tool_get_attack_patterns_of_intrusion_set
    \/ Tool_get_vulnerabilities_of_malware
    \/ Tool_get_tools_used_by_intrusion_set
    \/ Tool_get_malwares_of_report
    \/ Tool_get_intrusion_sets_of_report
    \/ Tool_get_ttps_of_threat_actor
    \/ Tool_get_ttps_of_intrusion_set
    \/ Tool_get_malwares_used_by_threat_actor
    \/ Tool_get_campaigns_by_threat_actor
    \/ Tool_get_vulnerabilities_exploited_by_threat_actor

SectorToolsNext ==
    \/ Tool_get_threat_actors_targeting_sector
    \/ Tool_get_intrusion_sets_targeting_sector

\* Traversal: the backing data set is any set of resolvable names and any
\* relationship list (answered to forward and to reverse queries alike; the
\* two endpoints of its records differ)
TraversalInit ==
    /\ \E present \in SUBSET Names, rels \in SeqsUpTo(RelPool, MaxRels) :
            db = Db(present, rels, rels, <<>>, NoReports, <<>>, <<>>)
    /\ hashseed = <<>>
    /\ Idle

TraversalNext ==
    \/ Run_get_related_entities
    \/ Run_get_reverse_related_entities
    \/ ForwardToolsNext
    \/ Respond

SpecTraversal == TraversalInit /\ [][TraversalNext]_vars

\* Sector tools: any set of resolvable names, any reverse relationship list
\* and any free-text answer
SectorInit ==
    /\ \E present \in SUBSET Names, rels \in SeqsUpTo(RelPool, MaxRels),
          hits \in SeqsUpTo(SectorHitPool, MaxHits) :
            db = Db(present, <<>>, rels, hits, NoReports, <<>>, <<>>)
    /\ hashseed = <<>>
    /\ Idle

SectorNext ==
    \/ SectorToolsNext
    \/ Respond

SpecSector == SectorInit /\ [][SectorNext]_vars

\* Reports mentioning an actor: either the actor resolves and the data set
\* holds any forward and reverse relationship lists and any report store, or
\* it does not resolve and the free-text search has any answer
ReportsInit ==
    /\ \/ \E fwd \in SeqsUpTo(ForwardReportRelPool, MaxRels),
             rev \in SeqsUpTo(ReverseReportRelPool, MaxRels),
             reports \in ReportStores :
               db = Db({"APT28"}, fwd, rev, <<>>, reports, <<>>, <<>>)
       \/ \E found \in SeqsUpTo(FoundPool, MaxHits) :
               db = Db({}, <<>>, <<>>, <<>>, NoReports, found, <<>>)
    /\ hashseed \in HashSeeds(db.fwd, db.rev)
    /\ Idle

ReportsNext ==
    \/ Tool_get_latest_reports_mentioning_threat_actor
    \/ Respond

SpecReports == ReportsInit /\ [][ReportsNext]_vars

\* at most one element of a pool
AtMostOne(pool) == {<<>>} \cup {<<x>> : x \in pool}

\* Name resolution: every tool that resolves an entity by exact name, over
\* any set of resolvable names and short collaborator answers
ResolveInit ==
    /\ \E present \in SUBSET Names, rels \in AtMostOne(RelPool),
          hits \in AtMostOne(SectorHitPool), found \in AtMostOne(FoundPool) :
            db = Db(present, rels, rels, hits, NoReports, found, <<>>)
    /\ hashseed \in HashSeeds(db.fwd, db.rev)
    /\ Idle

ResolveNext ==
    \/ ForwardToolsNext
    \/ SectorToolsNext
    \/ Tool_get_latest_reports_mentioning_threat_actor
    \/ Tool_get_report_details
    \/ Respond

SpecResolve == ResolveInit /\ [][ResolveNext]_vars

\* Lookup: the point lookup over any set of stored names and any short
\* answer of the search endpoint
LookupInit ==
    /\ \E present \in SUBSET Names, listing \in AtMostOne(SearchHitPool) :
            db = Db(present, <<>>, <<>>, <<>>, NoReports, <<>>, listing)
    /\ hashseed = <<>>
    /\ Idle

LookupNext ==
    \/ Run_find_entity_by_name
    \/ Respond

SpecLookup == LookupInit /\ [][LookupNext]_vars

\* Alias: the two attack-pattern tools of an intrusion set, called one
\* after the other over the same data set, the caller keeping responses
AliasInit ==
    /\ \E present \in SUBSET Names, rels \in SeqsUpTo(RelPool, MaxRels) :
            db = Db(present, rels, rels, <<>>, NoReports, <<>>, <<>>)
    /\ hashseed = <<>>
    /\ Idle

AliasNext ==
    \/ Tool_get_attack_patterns_of_intrusion_set
    \/ Tool_get_ttps_of_intrusion_set
    \/ Respond
    \/ RespondAndKeep

SpecAlias == AliasInit /\ [][AliasNext]_vars

\* Re-fetching: an actor resolves, the report endpoint of a forward
\* relationship has an identifier, is absent, has no identifier, an empty
\* one or a null one, and a re-fetch answers a report or none
RefetchInit ==
    /\ \E fwd \in SeqsUpTo({ [to |-> [id |-> PyStr("r1")]], EmptyDict, [to |-> EmptyDict],
                              [to |-> [id |-> PyStr("")]], [to |-> [id |-> PyNone]] },
                            MaxRels),
          rev \in AtMostOne(ReverseReportRelPool),
          reports \in ReportStores :
            db = Db({"APT28"}, fwd, rev, <<>>, reports, <<>>, <<>>)
    /\ hashseed \in HashSeeds(db.fwd, db.rev)
    /\ Idle

RefetchNext ==
    \/ Tool_get_latest_reports_mentioning_threat_actor
    \/ Respond

SpecRefetch == RefetchInit /\ [][RefetchNext]_vars

\* Formatting: the helpers applied to any listed entity
FormatInit ==
    /\ \E e \in ListedEntities :
            db = Db({}, <<>>, <<>>, <<>>, NoReports, <<>>, <<e>>)
    /\ hashseed = <<>>
    /\ Idle

FormatNext ==
    \/ Run_format_aliases
    \/ Run_format_entity_with_aliases
    \/ Respond

SpecFormat == FormatInit /\ [][FormatNext]_vars

\* Repetition: an actor with forward report relationships; calls are
\* repeated, the caller keeps responses, and the server may be restarted
\* between calls
RepeatInit ==
    /\ \E fwd \in SeqsUpTo(ForwardReportRelPool, MaxRels),
          reports \in {st \in ReportStores : st[PyStr("r3")] = Report(PyStr("r3"), EmptyDict)} :
            db = Db({"APT28"}, fwd, <<>>, <<>>, reports, <<>>, <<>>)
    /\ hashseed \in HashSeeds(db.fwd, db.rev)
    /\ Idle

RepeatNext ==
    \/ Tool_get_latest_reports_mentioning_threat_actor
    \/ Tool_get_report_details
    \/ Tool_get_malwares_of_intrusion_set
    \/ Respond
    \/ RespondAndKeep
    \/ Restart
    \/ Import

SpecRepeat == RepeatInit /\ [][RepeatNext]_vars

\* Filtered listing: the collaborator answers any short list of reports
FilterInit ==
    /\ \E listing \in SeqsUpTo(FoundPool, MaxHits) :
            db = Db({}, <<>>, <<>>, <<>>, NoReports, <<>>, listing)
    /\ hashseed = <<>>
    /\ Idle

FilterNext ==
    \/ Run_find_entity_by_filter
    \/ Respond

SpecFilter == FilterInit /\ [][FilterNext]_vars

SearchToolsNext ==
    \/ Tool_search_malware
    \/ Tool_search_intrusion_sets
    \/ Tool_search_attack_patterns
    \/ Tool_search_campaigns
    \/ Tool_search_vulnerabilities
    \/ Tool_search_threat_actors
    \/ Tool_search_tools
    \/ Tool_search_sectors

ReportToolsNext ==
    \/ Tool_search_reports
    \/ Tool_get_report_details
    \/ Tool_get_latest_reports
    \/ Tool_get_latest_reports_by_sector
    \/ Tool_get_latest_reports_mentioning_threat_actor

\* Entity search: the listing answers any short list of entities, or the
\* identity search answers any short list of identities
SearchInit ==
    /\ \/ \E listing \in SeqsUpTo(SearchHitPool, MaxHits) :
               db = Db({}, <<>>, <<>>, <<>>, NoReports, <<>>, listing)
       \/ \E hits \in SeqsUpTo(IdentityPool, MaxHits) :
               db = Db({}, <<>>, <<>>, hits, NoReports, <<>>, <<>>)
    /\ hashseed = <<>>
    /\ Idle

SearchNext ==
    \/ SearchToolsNext
    \/ Respond

SpecSearch == SearchInit /\ [][SearchNext]_vars

\* the data set db with the report t stored under every resolvable title
WithTitled(d, t) == [d EXCEPT !.titled = [n \in DOMAIN @ |-> t]]

\* Report tools: an actor and a report title resolve, the actor has forward
\* report relationships; or nothing resolves and the report search answers
\* any short list
ReportFieldsInit ==
    /\ \/ \E fwd \in SeqsUpTo(ForwardReportRelPool, MaxRels),
             reports \in {st \in ReportStores : st[PyStr("r3")] = Report(PyStr("r3"), EmptyDict)},
             t \in TitledPool :
               db = WithTitled(Db({"APT28"}, fwd, <<>>, <<>>, reports, <<>>, <<>>), t)
       \/ \E found \in SeqsUpTo(TitledPool, MaxHits) :
               db = Db({}, <<>>, <<>>, <<>>, NoReports, found, <<>>)
    /\ hashseed \in HashSeeds(db.fwd, db.rev)
    /\ Idle

ReportFieldsNext ==
    \/ ReportToolsNext
    \/ Respond

SpecReportFields == ReportFieldsInit /\ [][ReportFieldsNext]_vars

\* Every tool, over a traversal data set, a reports data set or a search
\* data set
EveryInit ==
    /\ \/ \E present \in SUBSET Names, rels \in AtMostOne(RelPool),
             hits \in AtMostOne(SectorHitPool) :
               db = Db(present, rels, rels, hits, NoReports, <<>>, <<>>)
       \/ \E fwd \in AtMostOne(ForwardReportRelPool), rev \in AtMostOne(ReverseReportRelPool),
             reports \in ReportStores, t \in TitledPool :
               db = WithTitled(Db({"APT28"}, fwd, rev, <<>>, reports, <<>>, <<>>), t)
       \/ \E listing \in AtMostOne(SearchHitPool), hits \in AtMostOne(IdentityPool),
             found \in AtMostOne(TitledPool) :
               db = Db({}, <<>>, <<>>, hits, NoReports, found, listing)
    /\ hashseed \in HashSeeds(db.fwd, db.rev)
    /\ Idle

EveryNext ==
    \/ ForwardToolsNext
    \/ SectorToolsNext
    \/ SearchToolsNext
    \/ ReportToolsNext
    \/ Respond

SpecEvery == EveryInit /\ [][EveryNext]_vars

\* Failing collaborator: every tool, over small data sets, with a call of
\* the invocation failing or none
FaultsInit ==
    /\ \E f \in Faults :
        \/ \E present \in SUBSET Names, rels \in AtMostOne(RelPool),
              hits \in AtMostOne(SectorHitPool) :
                db = WithFault(Db(present, rels, rels, hits, NoReports, <<>>, <<>>), f)
        \/ \E fwd \in AtMostOne(ForwardReportRelPool),
              rev \in AtMostOne(ReverseReportRelPool) :
                db = WithFault(Db({"APT28"}, fwd, rev, <<>>,
                                  [id \in ReportIds |-> Report(id, EmptyDict)],
                                  <<>>, <<>>), f)
        \/ \E listing \in AtMostOne(SearchHitPool), found \in AtMostOne(TitledPool) :
                db = WithFault(Db({}, <<>>, <<>>, <<>>, NoReports, found, listing), f)
    /\ hashseed \in HashSeeds(db.fwd, db.rev)
    /\ Idle

FaultsNext ==
    \/ ForwardToolsNext
    \/ SectorToolsNext
    \/ SearchToolsNext
    \/ ReportToolsNext
    \/ Respond

SpecFaults == FaultsInit /\ [][FaultsNext]_vars

\* Process start and lifetime: the module is loaded under any environment,
\* then tools are called (one of the two names resolves)
ProcessInit ==
    /\ \E rels \in AtMostOne(RelPool) :
            db = Db({"APT28"}, rels, rels, <<>>, NoReports, <<>>, <<>>)
    /\ environ \in Environments
    /\ _cti_client = Unbound
    /\ constructed = <<>>
    /\ hashseed \in HashSeeds(db.fwd, db.rev)
    /\ kept = NoResponse
    /\ tool = "none"
    /\ args = EmptyDict
    /\ calls = <<>>
    /\ outcome = "loading"
    /\ result = <<>>
    /\ fetched = <<>>

ProcessNext ==
    \/ Import
    \/ ForwardToolsNext
    \/ SectorToolsNext
    \/ SearchToolsNext
    \/ ReportToolsNext
    \/ Respond
    \/ RespondAndKeep

SpecProcess == ProcessInit /\ [][ProcessNext]_vars

-----------------------------------------------------------------------------
(* Properties *)

\* the counterpart endpoint of a relationship record reduced to the keys
\* stix_id and name, the empty string standing in for whatever is missing
Projection(rel, side) ==
    [k \in {"stix_id", "name"} |->
        IF side \in DOMAIN rel /\ k \in DOMAIN rel[side]
        THEN rel[side][k] ELSE PyStr("")]

ProjectsAll(res, rels, side) ==
    /\ Len(res) = Len(rels)
    /\ \A i \in 1..Len(rels) :
          /\ DOMAIN res[i] = {"stix_id", "name"}
          /\ res[i] = Projection(rels[i], side)

\* the last invocation issued a forward relationship query
Traversed == calls # <<>> /\ calls[Len(calls)].api = "stix_core_relationship.list"

\* C1: a forward traversal (called directly or as the last step of a
\* forward-traversal tool) returns one element per relationship record the
\* collaborator returned, in the collaborator's order, element i being the
\* 'to' endpoint of record i reduced to stix_id and name with "" for a
\* missing endpoint or field; a reverse traversal does the same with the
\* 'from' endpoint.
C1_TraversalProjection ==
    /\ (tool = "_get_related_entities" \/ (tool \in ForwardTools /\ Traversed))
          => ProjectsAll(result, db.fwd, "to")
    /\ tool = "_get_reverse_related_entities"
          => ProjectsAll(result, db.rev, "from")

\* C1 witness: a forward traversal over two records, the first without
\* endpoint fields, the second complete
C1_Witness ==
    /\ tool = "_get_related_entities"
    /\ Len(db.fwd) = 2
    /\ Get(db.fwd[1], "to", EmptyDict) = EmptyDict
    /\ result[1] = [stix_id |-> PyStr(""), name |-> PyStr("")]
    /\ result[2] = [stix_id |-> PyStr("malware--111"), name |-> PyStr("X-Agent")]

Min(a, b) == IF a <= b THEN a ELSE b
Max(a, b) == IF a >= b THEN a ELSE b

\* the sector tool resolved a sector and queried its reverse relationships
SectorTraversed == tool \in SectorTools /\ Traversed

\* C6 as stated: for every integer limit L and every number n of
\* relationships returned for the resolved sector, a sector tool returns
\* min(L, n) records.
C6_LimitLawAnyInteger ==
    SectorTraversed => Len(result) = Min(args.limit, Len(db.rev))

\* C6 amended: for a non-negative limit L a sector tool returns min(L, n)
\* records; for a negative limit it returns max(n + L, 0) records (Python's
\* slice drops the last -L records).
C6_LimitLaw ==
    SectorTraversed =>
        Len(result) = IF args.limit >= 0
                      THEN Min(args.limit, Len(db.rev))
                      ELSE Max(Len(db.rev) + args.limit, 0)

\* C6 witness: limit 1 cuts two relationships down to one record
C6_Witness ==
    SectorTraversed /\ args.limit = 1 /\ Len(db.rev) = 2 /\ Len(result) = 1

\* C7: with a resolved sector and a limit 0 <= L < n, a sector tool returns
\* exactly the projections of the first L relationship records, in the
\* collaborator's order.
C7_LimitTakesPrefix ==
    (SectorTraversed /\ args.limit >= 0 /\ args.limit < Len(db.rev)) =>
        result = [i \in 1..args.limit |-> Projection(db.rev[i], "from")]

\* C7 witness: limit 1 over two relationships with different sources keeps
\* the first
C7_Witness ==
    /\ SectorTraversed /\ args.limit = 1 /\ Len(db.rev) = 2
    /\ Projection(db.rev[1], "from") # Projection(db.rev[2], "from")
    /\ result = <<Projection(db.rev[1], "from")>>

\* the type set a sector tool asks the reverse traversal for
SectorSourceType ==
    IF tool = "get_threat_actors_targeting_sector" THEN "Threat-Actor" ELSE "Intrusion-Set"

IsExactRead(c, cat, n) ==
    c.api = cat \o ".read" /\ c.params = NameFilter(n)

IsReverseQuery(c, id, ty) ==
    /\ c.api = "stix_core_relationship.list"
    /\ c.params = [toId |-> id, fromTypes |-> PyList(<<ty>>)]

IsSectorSearch(c, n) ==
    /\ c.api = "identity.list"
    /\ c.params = [search |-> PyStr(n), first |-> PyInt(1)]

\* C8: a sector tool first issues the exact-name read; if it finds the
\* sector the only other call is the reverse query on that sector (no
\* search); otherwise the second call is the free-text search capped at one
\* result, and then either the search found nothing and the tool returns []
\* after these two calls, or the third and last call is the reverse query on
\* the first search hit.
C8_SectorResolutionOrder ==
    tool \in SectorTools =>
        /\ IsExactRead(calls[1], "identity", args.name)
        /\ IF args.name \in db.present
           THEN /\ Len(calls) = 2
                /\ IsReverseQuery(calls[2], Entity("identity", args.name).id,
                                  SectorSourceType)
           ELSE /\ IsSectorSearch(calls[2], args.name)
                /\ IF db.hits = <<>>
                   THEN Len(calls) = 2 /\ result = <<>>
                   ELSE /\ Len(calls) = 3
                        /\ IsReverseQuery(calls[3], db.hits[1].id, SectorSourceType)

\* C8 witness: the exact read finds nothing, the search answers two hits,
\* and the reverse query is made on the first one
C8_Witness ==
    /\ tool = "get_intrusion_sets_targeting_sector"
    /\ args.name \notin db.present
    /\ Len(db.hits) = 2 /\ db.hits[1] # db.hits[2]
    /\ Len(calls) = 3 /\ calls[3].params.toId = db.hits[1].id

ReportsTool == "get_latest_reports_mentioning_threat_actor"

\* the last invocation was a tool resolving args.name, and the exact-name
\* lookup returned none
LookupReturnedNone(tools) == tool \in tools /\ args.name \notin db.present

\* C2 as stated: every list-returning tool that resolves an entity by exact
\* name returns [] whenever that lookup returns none.
C2_NotFoundGivesEmptyList ==
    LookupReturnedNone(ForwardTools \cup SectorTools \cup {ReportsTool})
        => result = <<>>

\* C2 amended: when the exact-name lookup returns none, a forward-traversal
\* tool returns []; a sector tool returns [] if its fallback search finds
\* nothing too; the reports-mentioning-actor tool returns one record per hit
\* of its fallback report search, so [] only if that search finds nothing.
C2_NotFoundForwardGivesEmptyList ==
    /\ LookupReturnedNone(ForwardTools) => result = <<>>
    /\ (LookupReturnedNone(SectorTools) /\ db.hits = <<>>) => result = <<>>
    /\ LookupReturnedNone({ReportsTool}) => Len(result) = Len(db.found)

\* C2 witness: a forward-traversal tool is asked for an unknown name while
\* the data set holds relationships
C2_Witness ==
    /\ LookupReturnedNone({"get_malwares_of_intrusion_set"})
    /\ db.fwd # <<>>
    /\ result = <<>>

ReportKeys == {"stix_id", "name", "published", "labels", "description"}

\* C3: get_report_details for a title whose lookup returns none returns (it
\* does not raise) a record with exactly the keys stix_id, name, published,
\* labels, description, each the empty string.
C3_ReportNotFoundAllEmpty ==
    LookupReturnedNone({"get_report_details"}) =>
        /\ outcome = "returned"
        /\ result # PyNone
        /\ DOMAIN result = ReportKeys
        /\ \A k \in ReportKeys : result[k] = PyStr("")

\* C3 witness: get_report_details was asked for an unknown title
C3_Witness ==
    /\ LookupReturnedNone({"get_report_details"})
    /\ Len(calls) = 1 /\ calls[1].api = "report.read"
    /\ result.published = PyStr("")

\* the reports tool resolved its actor
ActorResolved == tool = ReportsTool /\ args.name \in db.present

\* the identifier sets A (forward direction) and B (reverse direction)
ForwardIds == Range(CollectReportIds(db.fwd, <<>>))
ReverseIds == Range(CollectReportIds(<<>>, db.rev))

\* how often the report stored under id occurs in the result
Occurrences(id) ==
    Cardinality({i \in 1..Len(result) : result[i].stix_id = db.reports[id].stix_id})

Fetchable == {id \in ForwardIds \cup ReverseIds : db.reports[id] # PyNone}

\* C4 as stated (tried with a positive limit): with overlapping A and B the
\* result contains every identifier of A union B exactly once.
C4_EachIdExactlyOnce ==
    (ActorResolved /\ args.limit >= 1 /\ ForwardIds \cap ReverseIds # {}) =>
        \A id \in ForwardIds \cup ReverseIds :
            id \in Fetchable /\ Occurrences(id) = 1

\* C4 amended: with overlapping A and B the result contains no identifier
\* of A union B twice; it contains exactly once every identifier whose
\* re-fetch returns a report, provided the limit is at least the number of
\* such reports; an identifier whose re-fetch returns none is left out, and
\* the result never has more than limit records for a non-negative limit.
C4_EachIdAtMostOnce ==
    (ActorResolved /\ ForwardIds \cap ReverseIds # {}) =>
        /\ \A id \in Fetchable : Occurrences(id) <= 1
        /\ args.limit >= Cardinality(Fetchable)
              => /\ \A id \in Fetchable : Occurrences(id) = 1
                 /\ Len(result) = Cardinality(Fetchable)
        /\ Len(result) <= Cardinality(Fetchable)
        /\ args.limit >= 0 => Len(result) <= args.limit

\* C4 witness: r2 is reached in both directions, r1 only forward, both are
\* fetched and returned once
C4_Witness ==
    /\ ActorResolved
    /\ PyStr("r2") \in ForwardIds \cap ReverseIds
    /\ PyStr("r1") \in Fetchable
    /\ Len(result) = 2
    /\ Occurrences(PyStr("r1")) = 1 /\ Occurrences(PyStr("r2")) = 1

\* the record fetched at position i has no publication date
Undated(i) == ~Truthy(Get(fetched[i], "published", PyNone))

\* C5: with a resolved actor the result is ordered by publication date
\* descending, a missing date counting as "": no record's date is smaller
\* than its successor's, and every undated record comes after every dated one.
C5_SortedByPublishedDescending ==
    ActorResolved =>
        /\ Len(result) = Len(fetched)
        /\ \A i \in 1..Len(result) :
              result[i].published = IF Undated(i) THEN PyStr("")
                                    ELSE fetched[i].published
        /\ \A i \in 1..(Len(result) - 1) :
              ~StrLess(result[i].published.v, result[i + 1].published.v)
        /\ \A i, j \in 1..Len(result) :
              (Undated(i) /\ ~Undated(j)) => j < i

\* C5 witness: three reports come back as 2024, 2023, undated
C5_Witness ==
    /\ ActorResolved
    /\ Len(result) = 3
    /\ result[1].published = PyStr("2024-12-01")
    /\ result[2].published = PyStr("2023-05-01")
    /\ result[3].published = PyStr("") /\ Undated(3)

\* C9: when the actor lookup returns none the tool issues exactly two
\* calls, the lookup and one report listing with search = the actor name,
\* orderBy = published, orderMode = desc, first = limit (no relationship
\* query, no re-fetch), and returns one formatted record per hit, in order.
C9_FallbackSearch ==
    LookupReturnedNone({ReportsTool}) =>
        /\ outcome = "returned"
        /\ Len(calls) = 2
        /\ IsExactRead(calls[1], "threat_actor", args.name)
        /\ calls[2].api = "report.list"
        /\ calls[2].params = [search |-> PyStr(args.name), orderBy |-> PyStr("published"),
                               orderMode |-> PyStr("desc"), first |-> PyInt(args.limit)]
        /\ Len(result) = Len(db.found)
        /\ \A i \in 1..Len(result) :
              /\ DOMAIN result[i] = ReportKeys
              /\ result[i].stix_id = db.found[i].stix_id
              /\ result[i].name = db.found[i].name

\* C9 witness: the actor is unknown and the search answers two reports
C9_Witness ==
    /\ LookupReturnedNone({ReportsTool})
    /\ Len(db.found) = 2 /\ db.found[1] # db.found[2]
    /\ Len(result) = 2 /\ result[1].stix_id = db.found[1].stix_id

\* the elements of strs separated by ", ", built from the left
RECURSIVE JoinedUpTo(_, _)
JoinedUpTo(strs, n) ==
    IF n = 0 THEN ""
    ELSE IF n = 1 THEN strs[1]
    ELSE JoinedUpTo(strs, n - 1) \o ", " \o strs[n]

\* C10: _format_aliases gives "" for None (an absent collection reaches it
\* as None) and for an empty list, the elements joined by ", " in order for
\* a non-empty list, and the string representation for a non-list scalar.
C10_FormatAliases ==
    tool = "_format_aliases" =>
        LET v == args.alias_list
        IN  result = CASE v.t = "none" -> PyStr("")
                       [] v.t = "list" -> PyStr(JoinedUpTo(v.v, Len(v.v)))
                       [] v.t = "str"  -> v
                       [] v.t = "int"  -> PyStr(ToString(v.v))

\* the last invocation repeats the call whose response the caller kept
Repeated == outcome = "returned" /\ kept.tool = tool /\ kept.args = args

\* the same call repeated in the same process returns the same output
RepeatUnderSameSeed == (Repeated /\ kept.seed = hashseed) => result = kept.result

\* C11 (tried with limits of at least 1): repeating a tool call with the
\* same arguments against the unchanged backing data set returns the output
\* the earlier call returned (same records, same order), whatever happened
\* in between.
C11_RepeatGivesSameOutput ==
    (Repeated /\ ("limit" \in DOMAIN args => args.limit >= 1)) => result = kept.result

\* the module has been loaded (successfully or not)
Loaded == outcome # "loading"

TokenSetting == Get(environ, "OPENCTI_TOKEN", PyNone)

IsEnvironRead(c) == c.api = "os.environ.get"

\* C12: when OPENCTI_TOKEN is absent, loading the module fails with
\* RuntimeError and no client is constructed; in no state is the process
\* serving (idle or returning) with _cti_client unbound or built with a
\* missing or empty token.
C12_NoTokenNoClient ==
    /\ (Loaded /\ "OPENCTI_TOKEN" \notin DOMAIN environ) =>
            /\ outcome = "failed"
            /\ result = PyStr("RuntimeError")
            /\ constructed = <<>>
            /\ SelectSeq(calls, IsConstruction) = <<>>
            /\ _cti_client = Unbound
    /\ (Loaded /\ outcome # "failed") =>
            /\ _cti_client # Unbound
            /\ Truthy(_cti_client.token)

\* C12 witness: the module was loaded with a URL but no token, and failed
C12_Witness ==
    /\ "OPENCTI_TOKEN" \notin DOMAIN environ
    /\ "OPENCTI_URL" \in DOMAIN environ
    /\ outcome = "failed"
    /\ tool = "_create_opencti_client"
    /\ _cti_client = Unbound

\* the pair the constructor has to be called with
ExpectedConstruction ==
    Call("OpenCTIApiClient",
         [url |-> IF "OPENCTI_URL" \in DOMAIN environ THEN environ["OPENCTI_URL"]
                  ELSE PyStr("http://localhost:8080"),
          token |-> TokenSetting])

\* C13 as stated: whenever OPENCTI_TOKEN is set, loading constructs the
\* client exactly once with (OPENCTI_URL or the default, token).
C13_TokenSetConstructsOnce ==
    (Loaded /\ "OPENCTI_TOKEN" \in DOMAIN environ) =>
        constructed = <<ExpectedConstruction>>

\* C13 amended: whenever OPENCTI_TOKEN is set to a non-empty value, loading
\* constructs the client exactly once with the pair (URL, token), the URL
\* being OPENCTI_URL if that variable is set (even to "") and
\* http://localhost:8080 if it is not; a token set to the empty string is
\* treated like an absent one (RuntimeError, nothing constructed).
C13_NonEmptyTokenConstructsOnce ==
    /\ (Loaded /\ Truthy(TokenSetting)) =>
            /\ constructed = <<ExpectedConstruction>>
            /\ _cti_client.url = ExpectedConstruction.params.url
            /\ _cti_client.token = TokenSetting
            /\ tool = "_create_opencti_client" =>
                    SelectSeq(calls, IsConstruction) = <<ExpectedConstruction>>
    /\ (Loaded /\ TokenSetting = PyStr("")) =>
            outcome = "failed" /\ constructed = <<>>

\* C13 witness: a token and no URL: the client is built with the default URL
C13_Witness ==
    /\ tool = "_create_opencti_client"
    /\ outcome = "returned"
    /\ DOMAIN environ = {"OPENCTI_TOKEN"}
    /\ constructed = <<Call("OpenCTIApiClient",
                            [url |-> PyStr("http://localhost:8080"),
                             token |-> PyStr("test-token")])>>

\* C14: once the module is loaded, in every state the process has made
\* exactly one construction and _cti_client is the object it gave; a tool
\* invocation makes no constructor call and no environment read.
C14_OneHandleForLife ==
    (Loaded /\ outcome # "failed") =>
        /\ Len(constructed) = 1
        /\ _cti_client = [t |-> "client", url |-> constructed[1].params.url,
                          token |-> constructed[1].params.token, serial |-> 1]
        /\ tool # "_create_opencti_client" =>
                /\ SelectSeq(calls, IsConstruction) = <<>>
                /\ SelectSeq(calls, IsEnvironRead) = <<>>

\* C14 witness: a second tool invocation has run (the caller kept the
\* response of an earlier one) and the handle is still the first object
C14_Witness ==
    /\ kept.tool \in ForwardTools
    /\ tool \in ForwardTools /\ tool # kept.tool
    /\ outcome = "returned" /\ Len(calls) = 2
    /\ _cti_client.serial = 1 /\ Len(constructed) = 1

FilterCalled == tool = "_find_entity_by_filter"

\* C15 as stated: _find_entity_by_filter issues one listing call on the
\* selected category with the filter structure, plus sort field, sort
\* direction and cap if a sort field is supplied and none of the three if
\* not, and returns the collaborator's result unchanged.
C15_SortAndCapOnlyWithSortField ==
    FilterCalled =>
        /\ Len(calls) = 1
        /\ calls[1].api = args.entity_type \o ".list"
        /\ calls[1].params =
              IF args.order_by # PyNone
              THEN [filters |-> args.filters, orderBy |-> args.order_by,
                    orderMode |-> PyStr(args.order_mode), first |-> PyInt(args.limit)]
              ELSE [filters |-> args.filters]
        /\ result = db.listing

\* C15 amended: _find_entity_by_filter issues one listing call on the
\* selected category, always with the filter structure and the cap
\* (first = limit); the sort field and sort direction are attached only
\* when a non-empty sort field is supplied; the collaborator's result is
\* returned unchanged.
C15_CapAlwaysSortOnlyWithSortField ==
    FilterCalled =>
        /\ Len(calls) = 1
        /\ calls[1].api = args.entity_type \o ".list"
        /\ DOMAIN calls[1].params =
              IF args.order_by \in {PyNone, PyStr("")}
              THEN {"filters", "first"}
              ELSE {"filters", "first", "orderBy", "orderMode"}
        /\ calls[1].params.filters = args.filters
        /\ calls[1].params.first = PyInt(args.limit)
        /\ args.order_by \notin {PyNone, PyStr("")} =>
              /\ calls[1].params.orderBy = args.order_by
              /\ calls[1].params.orderMode = PyStr(args.order_mode)
        /\ result = db.listing

\* C15 witness: no sort field is given and the call carries the filters and
\* the cap, while the two listed reports come back as they are
C15_Witness ==
    /\ FilterCalled
    /\ args.order_by = PyNone /\ args.limit = 1
    /\ calls[1].params = [filters |-> args.filters, first |-> PyInt(1)]
    /\ Len(db.listing) = 2 /\ result = db.listing

\* the operations of the collaborator that only read
ReadApis ==
    {c \o ".read" : c \in Categories} \cup {c \o ".list" : c \in Categories}
        \cup {"stix_core_relationship.list"}

C17_CreatesMissingIntrusionSet ==
    (tool = "get_malwares_of_intrusion_set" /\ outcome = "returned") =>
        /\ args.name \in db.present
        /\ ProjectsAll(result, db.fwd, "to")

EntitySearchTools ==
    {"search_malware", "search_intrusion_sets", "search_attack_patterns",
     "search_campaigns", "search_vulnerabilities", "search_threat_actors",
     "search_tools", "search_sectors"}

\* C18: every record returned by every entity search tool has exactly the
\* four keys stix_id, name, aliases, description.
C18_SearchRecordsHaveFourKeys ==
    (tool \in EntitySearchTools /\ outcome = "returned") =>
        \A i \in 1..Len(result) :
            DOMAIN result[i] = {"stix_id", "name", "aliases", "description"}

\* the search tools built on _format_entity_with_aliases do return the
\* four keys
HelperSearchRecordsHaveFourKeys ==
    (tool \in EntitySearchTools \ {"search_sectors"} /\ outcome = "returned") =>
        /\ Len(result) = Len(db.listing)
        /\ \A i \in 1..Len(result) :
              DOMAIN result[i] = {"stix_id", "name", "aliases", "description"}

\* the internal identifier of a record, if it has one
IdOf(d) == IF "id" \in DOMAIN d /\ d.id # PyNone THEN {d.id} ELSE {}

EndpointIds(rels) ==
    UNION {IdOf(Get(rels[i], "to", EmptyDict)) \cup IdOf(Get(rels[i], "from", EmptyDict)) :
              i \in DOMAIN rels}

\* every internal identifier the collaborator can hand to the server
InternalIds ==
    {Entity(c, n).id : c \in Categories, n \in db.present}
        \cup EndpointIds(db.fwd) \cup EndpointIds(db.rev)
        \cup UNION {IdOf(db.hits[i]) : i \in DOMAIN db.hits}
        \cup UNION {IdOf(db.found[i]) : i \in DOMAIN db.found}
        \cup UNION {IdOf(db.listing[i]) : i \in DOMAIN db.listing}
        \cup UNION {IdOf(db.titled[n]) : n \in DOMAIN db.titled}
        \cup UNION {IF db.reports[r] = PyNone THEN {r} ELSE {r} \cup IdOf(db.reports[r]) :
                        r \in DOMAIN db.reports}

\* the records the last invocation returned
Records ==
    IF outcome # "returned" \/ tool = "none" THEN {}
    ELSE IF tool = "get_report_details" THEN {result}
    ELSE Range(result)

\* C19: no record returned by a tool has a key 'id' or an internal
\* identifier as a value, and once the response is delivered no internal
\* identifier is held anywhere in the server (the only process-wide state
\* is the client handle).
C19_InternalIdNeverReturned ==
    /\ \A r \in Records :
          /\ "id" \notin DOMAIN r
          /\ \A k \in DOMAIN r : r[k] \notin InternalIds
    /\ outcome = "idle" =>
          /\ calls = <<>> /\ result = <<>> /\ fetched = <<>> /\ args = EmptyDict
          /\ {_cti_client.url, _cti_client.token} \cap InternalIds = {}

\* C19 witness: a traversal over a relationship whose target has the
\* internal identifier id-t1 returns the target's public identifier
C19_Witness ==
    /\ tool = "get_malwares_of_intrusion_set"
    /\ outcome = "returned"
    /\ Len(result) = 1
    /\ Get(Get(db.fwd[1], "to", EmptyDict), "id", PyNone) = PyStr("id-t1")
    /\ PyStr("id-t1") \in InternalIds
    /\ result[1] = [stix_id |-> PyStr("malware--111"), name |-> PyStr("X-Agent")]

ReportBearingTools ==
    {"search_reports", "get_report_details", "get_latest_reports",
     "get_latest_reports_by_sector", "get_latest_reports_mentioning_threat_actor"}

\* the report records, as the collaborator returned them, that the records
\* of the result present (in the same order)
PresentedReports ==
    IF tool = "get_report_details" THEN <<db.titled[args.name]>>
    ELSE IF tool = ReportsTool /\ args.name \in db.present THEN fetched
    ELSE db.found

ResultRecords == IF tool = "get_report_details" THEN <<result>> ELSE result

\* the invocations of the tools in ts that presented reports of the
\* collaborator give "" for a publication date, label list or description
\* that is None or absent, and no field of a record is None
NoneShownAsEmpty(ts) ==
    (tool \in ts /\ outcome = "returned"
        /\ ~(tool = "get_report_details" /\ args.name \notin db.present)) =>
        /\ Len(ResultRecords) = Len(PresentedReports)
        /\ \A i \in 1..Len(ResultRecords) :
              /\ \A k \in DOMAIN ResultRecords[i] : ResultRecords[i][k] # PyNone
              /\ \A k \in {"published", "labels", "description"} :
                    Get(PresentedReports[i], k, PyNone) = PyNone
                        => ResultRecords[i][k] = PyStr("")

\* the four tools other than get_report_details present None as ""
ListedReportsNoneShownAsEmpty ==
    NoneShownAsEmpty(ReportBearingTools \ {"get_report_details"})

\* C20: for every report-bearing tool and every report record the
\* collaborator returned, a publication date, label list or description
\* that is None or absent is presented as "", and no field of a returned
\* record is None.
C20_ReportFieldsNeverNone == NoneShownAsEmpty(ReportBearingTools)

\* the collaborator endpoints that search or list a collection
ListApis == {c \o ".list" : c \in Categories} \cup {"stix_core_relationship.list"}

\* C21: _find_entity_by_name issues exactly one read on the collection of
\* the selected category, filtered on the name exactly as passed, and
\* returns the collaborator's answer unchanged: the stored record of that
\* very name, or None; no search or list call is made and a name that only
\* resembles a stored name is not found.
C21_PointLookup ==
    (tool = "_find_entity_by_name" /\ outcome = "returned") =>
        /\ Len(calls) = 1
        /\ calls[1].api = args.entity_type \o ".read"
        /\ calls[1].params = NameFilter(args.entity_name)
        /\ \A i \in DOMAIN calls : calls[i].api \notin ListApis
        /\ result = ClientRead(args.entity_type, args.entity_name)
        /\ args.entity_name \notin db.present => result = PyNone
        /\ result # PyNone => result.name = PyStr(args.entity_name)

\* a lookup of "apt28" while "APT28" is stored and the search endpoint
\* has a hit to offer
C21_Witness ==
    /\ tool = "_find_entity_by_name" /\ outcome = "returned"
    /\ args.entity_name = "apt28"
    /\ "APT28" \in db.present
    /\ db.listing # <<>>
    /\ result = PyNone

\* the identifier the collaborator stores the actor args.name under
ActorId == Entity("threat_actor", args.name).id

\* C22: with a resolved actor the calls of
\* get_latest_reports_mentioning_threat_actor are, in this order, the actor
\* lookup, the forward relationship query (fromId = actor id, toTypes =
\* Report), the reverse relationship query (toId = actor id, fromTypes =
\* Report) and then the report re-fetches, one for each distinct identifier
\* collected from the two directions and nothing else.
C22_CallOrder ==
    ActorResolved =>
        /\ Len(calls) = 3 + Cardinality(ForwardIds \cup ReverseIds)
        /\ IsExactRead(calls[1], "threat_actor", args.name)
        /\ calls[2] = Call("stix_core_relationship.list",
                           [fromId |-> ActorId, toTypes |-> PyList(<<"Report">>)])
        /\ calls[3] = Call("stix_core_relationship.list",
                           [toId |-> ActorId, fromTypes |-> PyList(<<"Report">>)])
        /\ \A i \in 4..Len(calls) :
              /\ calls[i].api = "report.read"
              /\ DOMAIN calls[i].params = {"id"}
              /\ calls[i].params.id \in ForwardIds \cup ReverseIds
        /\ \A i, j \in 4..Len(calls) : calls[i] = calls[j] => i = j

\* C22 witness: both directions answer, an identifier occurs in both, and
\* two re-fetches follow the two queries
C22_Witness ==
    /\ ActorResolved
    /\ ForwardIds \cap ReverseIds # {}
    /\ Cardinality(ForwardIds \cup ReverseIds) = 2
    /\ Len(calls) = 5
    /\ calls[4].api = "report.read" /\ calls[5].api = "report.read"

\* an invocation has ended and its call at the faulty position was issued
FailedCallIssued ==
    /\ tool # "none"
    /\ outcome \in {"returned", "raised"}
    /\ db.fault.at \in 1..Len(calls)

\* C23: when a collaborator call of a tool invocation fails, the invocation
\* ends with that very exception: the failed call is the last call of the
\* invocation and was issued once, and the response carries the exception
\* and no records.  This holds wherever in the invocation the call stands
\* (lookup, fallback search, relationship query, report re-fetch).
C23_FailurePropagates ==
    FailedCallIssued =>
        /\ outcome = "raised"
        /\ result = PyStr(db.fault.exc)
        /\ Len(calls) = db.fault.at
        /\ \A i \in 1..(Len(calls) - 1) : calls[i] # calls[Len(calls)]
        /\ fetched = <<>>

\* C23 witness: the second report re-fetch of
\* get_latest_reports_mentioning_threat_actor fails with a PermissionError
\* after the lookup, both relationship queries and one re-fetch succeeded
C23_Witness ==
    /\ tool = ReportsTool /\ args.name \in db.present
    /\ db.fault = [at |-> 5, exc |-> "PermissionError"]
    /\ Len(calls) = 5
    /\ calls[4].api = "report.read" /\ calls[5].api = "report.read"
    /\ outcome = "raised"
    /\ result = PyStr("PermissionError")

\* the publication date a stored report is sorted by
StoredKey(id) == PublishedKey(db.reports[id])

\* the fetchable reports that the result leaves out
LeftOut == {id \in Fetchable : Occurrences(id) = 0}

\* C24: with a resolved actor and a limit L >= 0 the result has min(L, n)
\* records, n being the number of reports fetched, and no report left out
\* has a publication date strictly later than a returned one: the list is
\* cut after it is sorted.
C24_TruncationAfterSort ==
    (ActorResolved /\ args.limit >= 0) =>
        /\ Len(result) = Min(args.limit, Cardinality(Fetchable))
        /\ \A id \in LeftOut : \A i \in 1..Len(result) :
              ~StrLess(result[i].published.v, StoredKey(id))

\* C24 witness: limit 1, the set of identifiers iterates with the older
\* report r3 first, and the newer report r1 is the one returned
C24_Witness ==
    /\ ActorResolved /\ args.limit = 1
    /\ Fetchable = {PyStr("r1"), PyStr("r3")}
    /\ StrLess(StoredKey(PyStr("r3")), StoredKey(PyStr("r1")))
    /\ calls[4].params.id = PyStr("r3")
    /\ Len(result) = 1
    /\ result[1].stix_id = db.reports[PyStr("r1")].stix_id
    /\ LeftOut = {PyStr("r3")}

\* C25: _get_related_entities issues one relationship query by source
\* identifier (fromId) and target types (toTypes) and returns the 'to'
\* endpoints; _get_reverse_related_entities issues one relationship query by
\* target identifier (toId) and source types (fromTypes) and returns the
\* 'from' endpoints.  Neither returns the endpoint on the caller's side.
C25_MirrorImage ==
    /\ (tool = "_get_related_entities" /\ outcome = "returned") =>
          /\ calls = <<Call("stix_core_relationship.list",
                            [fromId |-> args.id, toTypes |-> PyList(args.types)])>>
          /\ result = [i \in 1..Len(db.fwd) |-> Projection(db.fwd[i], "to")]
    /\ (tool = "_get_reverse_related_entities" /\ outcome = "returned") =>
          /\ calls = <<Call("stix_core_relationship.list",
                            [toId |-> args.id, fromTypes |-> PyList(args.types)])>>
          /\ result = [i \in 1..Len(db.rev) |-> Projection(db.rev[i], "from")]

\* C25 witness: a reverse traversal over a record whose two endpoints
\* differ returns the source endpoint, not the target
C25_Witness ==
    /\ tool = "_get_reverse_related_entities" /\ outcome = "returned"
    /\ Len(db.rev) >= 1
    /\ Projection(db.rev[1], "from") = [stix_id |-> PyStr("threat-actor--111"), name |-> PyStr("Actor1")]
    /\ Projection(db.rev[1], "to") = [stix_id |-> PyStr("malware--111"), name |-> PyStr("X-Agent")]
    /\ result[1] = [stix_id |-> PyStr("threat-actor--111"), name |-> PyStr("Actor1")]

\* the identity's class names a sector: "class" or "sector" in any case
DenotesSector(identity) ==
    /\ "identity_class" \in DOMAIN identity
    /\ identity.identity_class # PyNone
    /\ Lower(Chars(identity.identity_class.v)) \in {Chars("class"), Chars("sector")}

\* an identity as search_sectors presents it
ShownIdentity(identity) ==
    [stix_id |-> Get(identity, "stix_id", PyStr("")),
     name |-> Get(identity, "name", PyStr("")),
     description |-> GetOr(identity, "description", PyStr(""))]

\* the identity has a class and it is None
NullClass(identity) ==
    "identity_class" \in DOMAIN identity /\ identity.identity_class = PyNone

\* the identity has no class: the key is absent or its value is None
Unclassified(identity) ==
    "identity_class" \notin DOMAIN identity \/ NullClass(identity)

\* the presentations of the identities at the positions S of the search
\* answer, in the collaborator's order
ShownAt(S) ==
    LET In(i) == i \in S
        positions == SelectSeq([i \in 1..Len(db.hits) |-> i], In)
    IN  [j \in 1..Len(positions) |-> ShownIdentity(db.hits[positions[j]])]

SectorPositions == {i \in 1..Len(db.hits) : DenotesSector(db.hits[i])}
UnclassifiedPositions == {i \in 1..Len(db.hits) : Unclassified(db.hits[i])}

\* C26: whatever identity classes the identity search answers with (a
\* string, an absent class, a null class), search_sectors returns a list
\* that holds, in the collaborator's order, every identity whose class
\* denotes a sector and no identity of another class (identities without a
\* class may or may not be among them).
C26_OnlySectorIdentities ==
    tool = "search_sectors" =>
        /\ outcome = "returned"
        /\ \E K \in SUBSET UnclassifiedPositions : result = ShownAt(SectorPositions \cup K)

\* what search_sectors does when no class is null: the identities whose
\* class names a sector are kept, and so are those without a class
SearchSectorsOnStringClasses ==
    (tool = "search_sectors" /\ \A i \in 1..Len(db.hits) : ~NullClass(db.hits[i])) =>
        /\ outcome = "returned"
        /\ result = ShownAt(SectorPositions \cup UnclassifiedPositions)

\* a null class ends the invocation with an AttributeError
SearchSectorsOnNullClass ==
    (tool = "search_sectors" /\ \E i \in 1..Len(db.hits) : NullClass(db.hits[i])) =>
        /\ outcome = "raised"
        /\ result = PyStr("AttributeError")

\* the two attack-pattern tools of an intrusion set
AliasTools == {"get_ttps_of_intrusion_set", "get_attack_patterns_of_intrusion_set"}

\* the last invocation and the kept one are the two tools on one name
AliasPair ==
    /\ outcome = "returned"
    /\ tool \in AliasTools /\ kept.tool \in AliasTools /\ tool # kept.tool
    /\ kept.args = args

\* C27: called with the same intrusion set name over the same data set,
\* get_ttps_of_intrusion_set and get_attack_patterns_of_intrusion_set issue
\* the same collaborator calls and return the same result.
C27_TtpsIsAlias ==
    AliasPair => (calls = kept.calls /\ result = kept.result)

\* C27 witness: both tools resolved the intrusion set and traversed to two
\* attack patterns
C27_Witness ==
    /\ AliasPair
    /\ tool = "get_ttps_of_intrusion_set"
    /\ Len(calls) = 2
    /\ calls[2].params.toTypes = PyList(<<"Attack-Pattern">>)
    /\ Len(result) = 2
    /\ result[1] # result[2]

\* the category in which a forward-traversal tool looks its name up
ResolvedCategory(t) ==
    CASE t \in {"get_malwares_of_intrusion_set", "get_attack_patterns_of_intrusion_set",
                "get_tools_used_by_intrusion_set", "get_ttps_of_intrusion_set"}
            -> "intrusion_set"
      [] t = "get_vulnerabilities_of_malware" -> "malware"
      [] t \in {"get_malwares_of_report", "get_intrusion_sets_of_report"} -> "report"
      [] OTHER -> "threat_actor"

\* the internal identifier under which the collaborator stores name n in
\* category cat
StoredId(cat, n) == IF cat = "report" THEN db.titled[n].id ELSE Entity(cat, n).id

ReportEndpointId(rel, side) ==
    IF side \in DOMAIN rel /\ "id" \in DOMAIN rel[side] THEN rel[side].id ELSE PyNone

\* the non-empty report identifiers that the two relationship answers hold
UsableReportIds ==
    ({ReportEndpointId(db.fwd[i], "to") : i \in 1..Len(db.fwd)}
        \cup {ReportEndpointId(db.rev[i], "from") : i \in 1..Len(db.rev)})
    \ {PyNone, PyStr("")}

\* the positions of the report re-fetches in the call log
Refetches == {i \in DOMAIN calls : calls[i].api = "report.read"}

\* C29: with a resolved actor the invocation returns, the re-fetched
\* identifiers are exactly the non-empty identifiers found on the report
\* endpoints (a record without endpoint or identifier, or with an empty
\* identifier, causes no re-fetch), the result is no longer than their
\* number, and every returned record is the report a re-fetch answered
\* with (a re-fetch answering none adds nothing).
C29_RefetchOnlyUsableIds ==
    ActorResolved =>
        /\ outcome = "returned"
        /\ {calls[i].params.id : i \in Refetches} = UsableReportIds
        /\ Len(result) <= Cardinality(UsableReportIds)
        /\ Len(fetched) = Len(result)
        /\ \A i \in 1..Len(fetched) :
              \E id \in UsableReportIds :
                  db.reports[id] # PyNone /\ fetched[i] = db.reports[id]

\* C29 witness: one forward record has an empty identifier, the other
\* names r1 whose re-fetch answers none, and the reverse record names r3,
\* which is the one report returned
C29_Witness ==
    /\ ActorResolved /\ args.limit = MaxLimit
    /\ db.fwd = <<[to |-> [id |-> PyStr("")]], [to |-> [id |-> PyStr("r1")]]>>
    /\ db.rev = <<[from |-> [id |-> PyStr("r3")]]>>
    /\ db.reports[PyStr("r1")] = PyNone
    /\ Cardinality(Refetches) = 2
    /\ Len(result) = 1
    /\ result[1].stix_id = PyStr("report--r3")

\* the publication date of a listed report as it is presented
ShownPublished(report) ==
    IF "published" \in DOMAIN report /\ report.published \notin {PyNone, PyStr("")}
    THEN report.published ELSE PyStr("")

\* C30: get_latest_reports(limit) issues exactly one call, a report listing
\* with orderBy = published, orderMode = desc, first = limit and no other
\* parameter, and returns one five-key record per report of the answer, in
\* the answer's order: nothing is re-sorted, filtered or cut.
C30_LatestReportsPassThrough ==
    (tool = "get_latest_reports" /\ outcome = "returned") =>
        /\ calls = <<Call("report.list",
                          [orderBy |-> PyStr("published"), orderMode |-> PyStr("desc"),
                           first |-> PyInt(args.limit)])>>
        /\ Len(result) = Len(db.found)
        /\ \A i \in 1..Len(result) :
              /\ DOMAIN result[i] = ReportKeys
              /\ result[i].stix_id = db.found[i].stix_id
              /\ result[i].name = db.found[i].name
              /\ result[i].published = ShownPublished(db.found[i])

\* C30 witness: with limit 1 the listing answers two reports, the undated
\* one first, and both come back in that order
C30_Witness ==
    /\ tool = "get_latest_reports" /\ outcome = "returned"
    /\ args.limit = 1
    /\ Len(db.found) = 2
    /\ ShownPublished(db.found[1]) = PyStr("")
    /\ ShownPublished(db.found[2]) = PyStr("2024-12-01")
    /\ Len(result) = 2
    /\ result[1].published = PyStr("") /\ result[2].published = PyStr("2024-12-01")

====
